---- MODULE Spec2Model ----
(***************************************************************************)
(* The hospital appointment dialogue engine of the Cavas voice demo        *)
(* (src/unnamed/part_000): per-call sessions, the entity extractors, the   *)
(* dialogue state machine and the Twilio webhook handlers around it.       *)
(*                                                                         *)
(* A JavaScript string is a tuple of its characters, one per element; a    *)
(* character outside ASCII is written by its code point ("u0939").  The    *)
(* extractors work on these tuples as the code's regular expressions and   *)
(* includes() tests work on the strings.  Enumerations (dialogue state,    *)
(* language tag, mode, route) are TLA+ strings.                            *)
(***************************************************************************)
EXTENDS Integers, Sequences, FiniteSets, TLC

\* ------------------------------------------------------------------------
\* Characters and the String methods the code uses
\* ------------------------------------------------------------------------
UpperCase == <<"A","B","C","D","E","F","G","H","I","J","K","L","M","N","O","P","Q","R","S","T","U","V","W","X","Y","Z">>
LowerCase == <<"a","b","c","d","e","f","g","h","i","j","k","l","m","n","o","p","q","r","s","t","u","v","w","x","y","z">>
Digits == <<"0","1","2","3","4","5","6","7","8","9">>
\* the code points U+0900..U+097F of /[ऀ-ॿ]/
Devanagari == {"u0900","u0901","u0902","u0903","u0904","u0905","u0906","u0907","u0908","u0909","u090A","u090B","u090C","u090D","u090E","u090F","u0910","u0911","u0912","u0913","u0914","u0915","u0916","u0917","u0918","u0919","u091A","u091B","u091C","u091D","u091E","u091F","u0920","u0921","u0922","u0923","u0924","u0925","u0926","u0927","u0928","u0929","u092A","u092B","u092C","u092D","u092E","u092F","u0930","u0931","u0932","u0933","u0934","u0935","u0936","u0937","u0938","u0939","u093A","u093B","u093C","u093D","u093E","u093F","u0940","u0941","u0942","u0943","u0944","u0945","u0946","u0947","u0948","u0949","u094A","u094B","u094C","u094D","u094E","u094F","u0950","u0951","u0952","u0953","u0954","u0955","u0956","u0957","u0958","u0959","u095A","u095B","u095C","u095D","u095E","u095F","u0960","u0961","u0962","u0963","u0964","u0965","u0966","u0967","u0968","u0969","u096A","u096B","u096C","u096D","u096E","u096F","u0970","u0971","u0972","u0973","u0974","u0975","u0976","u0977","u0978","u0979","u097A","u097B","u097C","u097D","u097E","u097F"}

Range(f) == {f[i] : i \in DOMAIN f}
SetMin(S) == CHOOSE x \in S : \A y \in S : x <= y
SetMax(S) == CHOOSE x \in S : \A y \in S : x >= y
IsUpper(c) == c \in Range(UpperCase)
IsLetter(c) == c \in Range(UpperCase) \cup Range(LowerCase)
IsDigit(c) == c \in Range(Digits)
\* \w and \s of a regular expression
IsWord(c) == IsLetter(c) \/ IsDigit(c) \/ c = "_"
IsSpace(c) == c \in {" ", "\t", "\n", "\r"}

\* JavaScript null: a value that is no string (every element of a string is
\* one character)
null == <<"null">>
\* a value is truthy when it is neither null nor the empty string
truthy(v) == v /= null /\ v /= <<>>

toLowerCase(s) == [i \in 1..Len(s) |-> IF IsUpper(s[i]) THEN LowerCase[CHOOSE k \in 1..26 : UpperCase[k] = s[i]] ELSE s[i]] \o <<>>

\* s.startsWith(k, i): k stands in s after the first i characters
matchAt(s, i, k) == i + Len(k) <= Len(s) /\ \A j \in 1..Len(k) : s[i + j] = k[j]
includes(s, k) == \E i \in 0..(Len(s) - Len(k)) : matchAt(s, i, k)
\* 0-based, -1 when absent
indexOf(s, k) == IF includes(s, k) THEN SetMin({i \in 0..(Len(s) - Len(k)) : matchAt(s, i, k)}) ELSE -1
slice(s, from) == SubSeq(s, from + 1, Len(s))
\* xs.slice(0, n)
firstN(xs, n) == SubSeq(xs, 1, IF Len(xs) < n THEN Len(xs) ELSE n)
trim(s) ==
    LET keep == {i \in 1..Len(s) : ~IsSpace(s[i])}
    IN  IF keep = {} THEN <<>> ELSE SubSeq(s, SetMin(keep), SetMax(keep))

\* s.replace(/\s+/g, " ") from character i on
RECURSIVE squeeze(_, _)
squeeze(s, i) ==
    IF i > Len(s) THEN <<>>
    ELSE (IF ~IsSpace(s[i]) THEN <<s[i]>>
          ELSE IF i > 1 /\ IsSpace(s[i - 1]) THEN <<>> ELSE <<" ">>) \o squeeze(s, i + 1)

normalize(s) == trim(squeeze(toLowerCase(s), 1))
containsDevanagari(text) == \E i \in 1..Len(text) : text[i] \in Devanagari

\* \b between character i and character i+1 of s (i = 0: before the first)
boundary(s, i) ==
    LET w(j) == j >= 1 /\ j <= Len(s) /\ IsWord(s[j])
    IN  w(i) /= w(i + 1)
\* \s* from offset i: the offset after the blanks that follow
skipSpace(s, i) == SetMax({j \in i..Len(s) : \A x \in (i + 1)..j : IsSpace(s[x])})

\* ------------------------------------------------------------------------
\* Entity extractors
\* ------------------------------------------------------------------------
\* /(\+?\d[\d\s-]{9,}\d)/ tried at character p: the last character of the
\* (greedy) match, 0 when it does not match there
phoneRunAt(t, p) ==
    LET d == IF t[p] = "+" THEN p + 1 ELSE p
        ends == {e \in (d + 10)..Len(t) :
                    /\ IsDigit(t[e])
                    /\ \A x \in (d + 1)..e : IsDigit(t[x]) \/ IsSpace(t[x]) \/ t[x] = "-"}
    IN  IF d <= Len(t) /\ IsDigit(t[d]) /\ ends /= {} THEN SetMax(ends) ELSE 0

extractPhone(text) ==
    LET t == text
        runs == {p \in 1..Len(t) : phoneRunAt(t, p) > 0}
        tens == {p \in 1..(Len(t) - 9) : \A x \in p..(p + 9) : IsDigit(t[x])}
        strip(m) == SelectSeq(m, LAMBDA c : ~IsSpace(c) /\ c /= "-")
    IN  IF runs /= {} THEN strip(SubSeq(t, SetMin(runs), phoneRunAt(t, SetMin(runs))))
        ELSE IF tens /= {} THEN strip(SubSeq(t, SetMin(tens), SetMin(tens) + 9))
        ELSE null

\* ([A-Za-z][A-Za-z .]{1,40})\b tried at character q: the last character of
\* the (greedy) group, 0 when it does not match there
nameGroupAt(raw, q) ==
    LET last == IF Len(raw) < q + 40 THEN Len(raw) ELSE q + 40
        ends == {e \in (q + 1)..last :
                    /\ \A x \in (q + 1)..e : IsLetter(raw[x]) \/ raw[x] = " " \/ raw[x] = "."
                    /\ boundary(raw, e)}
    IN  IF q <= Len(raw) /\ IsLetter(raw[q]) /\ ends /= {} THEN SetMax(ends) ELSE 0

\* \s*(is)?\s*[:\-]?\s*(group)\b from offset i: <<first, last>> character of
\* the group, <<0, 0>> when the tail does not match.  "is" is tried first and
\* given up when the group cannot follow it.
afterSeparator(raw, j) == skipSpace(raw, IF j < Len(raw) /\ raw[j + 1] \in {":", "-"} THEN j + 1 ELSE j)
groupFrom(raw, start) == <<start + 1, nameGroupAt(raw, start + 1)>>
firstGroup(isThere, withIs, without) ==
    IF isThere /\ withIs[2] > 0 THEN withIs ELSE IF without[2] > 0 THEN without ELSE <<0, 0>>
nameTailAt(raw, i) ==
    firstGroup(matchAt(toLowerCase(raw), skipSpace(raw, i), <<"i","s">>),
               groupFrom(raw, afterSeparator(raw, skipSpace(raw, skipSpace(raw, i) + 2))),
               groupFrom(raw, afterSeparator(raw, skipSpace(raw, i))))

nameGroup(raw, g) == trim(SubSeq(raw, g[1], g[2]))
\* m1: name is Rohit / name Rohit; m2: patient name Rohit
firstName(raw, m1, m2) ==
    IF m1 /= {} THEN nameGroup(raw, nameTailAt(raw, SetMin(m1) + 4))
    ELSE IF m2 /= {} THEN nameGroup(raw, nameTailAt(raw, skipSpace(raw, SetMin(m2) + 7) + 4))
    ELSE null
nameIn(raw, low) ==
    firstName(raw,
              {i \in 0..Len(raw) : /\ boundary(raw, i) /\ matchAt(low, i, <<"n","a","m","e">>)
                                   /\ nameTailAt(raw, i + 4)[1] > 0},
              {i \in 0..Len(raw) : /\ boundary(raw, i) /\ matchAt(low, i, <<"p","a","t","i","e","n","t">>)
                                   /\ matchAt(low, skipSpace(raw, i + 7), <<"n","a","m","e">>)
                                   /\ nameTailAt(raw, skipSpace(raw, i + 7) + 4)[1] > 0})
extractName(text) == nameIn(trim(text), toLowerCase(trim(text)))

detectLangPreference(text) ==
    LET t == normalize(text)
    IN  IF containsDevanagari(text) THEN "hi-IN"
        ELSE IF includes(t, <<"h","i","n","d","i">>) \/ includes(t, <<"u0939","u093F","u0902","u0926","u0940">>) \/ includes(t, <<"u0939","u093F","u0928","u094D","u0926","u0940">>) THEN "hi-IN"
        ELSE IF includes(t, <<"e","n","g","l","i","s","h">>) \/ includes(t, <<"u0905","u0902","u0917","u094D","u0930","u0947","u091C","u0940">>) THEN "en-IN"
        ELSE "null"

\* [...].some((k) => tNorm.includes(k))
someIncluded(tNorm, words) == \E i \in DOMAIN words : includes(tNorm, words[i])

HumanWords == <<<<"h","u","m","a","n">>, <<"a","g","e","n","t">>, <<"r","e","p","r","e","s","e","n","t","a","t","i","v","e">>, <<"o","p","e","r","a","t","o","r">>, <<"r","e","a","l"," ","p","e","r","s","o","n">>, <<"c","o","n","n","e","c","t"," ","m","e">>, <<"t","r","a","n","s","f","e","r">>, <<"t","a","l","k"," ","t","o"," ","s","o","m","e","o","n","e">>, <<"c","a","l","l"," ","c","e","n","t","e","r">>, <<"a","g","e","n","t"," ","s","e">>, <<"r","e","p","r","e","s","e","n","t","a","t","i","v","e"," ","s","e">>, <<"h","u","m","a","n"," ","s","e">>>>
wantsHuman(text) == someIncluded(normalize(text), HumanWords)

RiskyWords == <<<<"f","e","v","e","r">>, <<"p","a","i","n">>, <<"c","h","e","s","t"," ","p","a","i","n">>, <<"b","r","e","a","t","h">>, <<"b","p">>, <<"b","l","o","o","d"," ","p","r","e","s","s","u","r","e">>, <<"d","i","a","g","n","o","s","e">>, <<"d","i","a","g","n","o","s","i","s">>, <<"t","r","e","a","t","m","e","n","t">>, <<"m","e","d","i","c","i","n","e">>, <<"t","a","b","l","e","t">>, <<"d","o","s","e">>, <<"e","m","e","r","g","e","n","c","y">>, <<"v","o","m","i","t">>, <<"b","l","e","e","d","i","n","g">>, <<"p","r","e","g","n","a","n","t">>, <<"p","r","e","g","n","a","n","c","y">>, <<"h","e","a","r","t"," ","a","t","t","a","c","k">>, <<"s","t","r","o","k","e">>, <<"b","u","k","h","a","r">>, <<"d","a","r","d">>, <<"s","a","a","n","s">>, <<"d","a","b","a","v">>, <<"d","a","w","a","i">>, <<"e","m","e","r","g","e","n","c","y">>>>
looksLikeMedicalAdvice(text) == someIncluded(normalize(text), RiskyWords)

BookingWords == <<<<"a","p","p","o","i","n","t","m","e","n","t">>, <<"b","o","o","k">>, <<"b","o","o","k","i","n","g">>, <<"s","c","h","e","d","u","l","e">>, <<"a","p","a","r","t","m","e","n","t">>, <<"u0905","u092A","u0949","u0907","u0902","u091F","u092E","u0947","u0902","u091F">>, <<"u092C","u0941","u0915">>, <<"u0915","u0932">>, <<"a","a","j">>, <<"k","a","l">>, <<"p","a","r","s","o">>, <<"m","i","l","n","a">>, <<"d","o","c","t","o","r"," ","s","e">>, <<"c","o","n","s","u","l","t">>>>
looksLikeBookingIntent(text) ==
    \E i \in DOMAIN BookingWords : includes(normalize(text), normalize(BookingWords[i]))

\* ------------------------------------------------------------------------
\* Doctor / department directory
\* ------------------------------------------------------------------------
DOCTORS == <<
    [id |-> <<"D","0","0","1">>, name |-> <<"D","r"," ","A","r","j","u","n"," ","M","e","h","t","a">>, dept |-> <<"C","a","r","d","i","o","l","o","g","y">>, location |-> <<"G","u","r","g","a","o","n">>,
     nextSlots |-> <<<<"T","o","m","o","r","r","o","w"," ","5"," ","P","M">>, <<"D","a","y"," ","a","f","t","e","r"," ","t","o","m","o","r","r","o","w"," ","1","1"," ","A","M">>, <<"F","r","i","d","a","y"," ","4"," ","P","M">>>>],
    [id |-> <<"D","0","0","2">>, name |-> <<"D","r"," ","N","e","h","a"," ","S","h","a","r","m","a">>, dept |-> <<"C","a","r","d","i","o","l","o","g","y">>, location |-> <<"G","u","r","g","a","o","n">>,
     nextSlots |-> <<<<"T","o","m","o","r","r","o","w"," ","1","2"," ","P","M">>, <<"T","h","u","r","s","d","a","y"," ","6"," ","P","M">>>>],
    [id |-> <<"D","0","0","3">>, name |-> <<"D","r"," ","R","o","h","a","n"," ","K","a","p","o","o","r">>, dept |-> <<"O","r","t","h","o","p","e","d","i","c","s">>, location |-> <<"G","u","r","g","a","o","n">>,
     nextSlots |-> <<<<"T","o","m","o","r","r","o","w"," ","3"," ","P","M">>, <<"S","a","t","u","r","d","a","y"," ","1","0"," ","A","M">>>>],
    [id |-> <<"D","0","0","4">>, name |-> <<"D","r"," ","S","i","m","r","a","n"," ","K","a","u","r">>, dept |-> <<"E","N","T">>, location |-> <<"G","u","r","g","a","o","n">>,
     nextSlots |-> <<<<"T","o","m","o","r","r","o","w"," ","1"," ","P","M">>, <<"F","r","i","d","a","y"," ","2"," ","P","M">>>>] >>

DEPARTMENTS == <<<<"C","a","r","d","i","o","l","o","g","y">>, <<"O","r","t","h","o","p","e","d","i","c","s">>, <<"E","N","T">>, <<"N","e","u","r","o","l","o","g","y">>, <<"O","n","c","o","l","o","g","y">>, <<"D","e","r","m","a","t","o","l","o","g","y">>, <<"G","a","s","t","r","o","e","n","t","e","r","o","l","o","g","y">>>>

DeptAliases == <<
    [k |-> <<<<"c","a","r","d","i","o">>, <<"c","a","r","d","i","o","l","o","g","y">>, <<"h","e","a","r","t">>, <<"c","a","r","d","i","o","l","o","g","i","s","t">>>>, v |-> <<"C","a","r","d","i","o","l","o","g","y">>],
    [k |-> <<<<"o","r","t","h","o">>, <<"o","r","t","h","o","p","e","d","i","c">>, <<"o","r","t","h","o","p","e","d","i","c","s">>, <<"b","o","n","e","s">>, <<"b","o","n","e">>>>, v |-> <<"O","r","t","h","o","p","e","d","i","c","s">>],
    [k |-> <<<<"e","n","t">>, <<"e","a","r">>, <<"n","o","s","e">>, <<"t","h","r","o","a","t">>>>, v |-> <<"E","N","T">>],
    [k |-> <<<<"n","e","u","r","o">>, <<"n","e","u","r","o","l","o","g","y">>, <<"b","r","a","i","n">>>>, v |-> <<"N","e","u","r","o","l","o","g","y">>],
    [k |-> <<<<"o","n","c","o">>, <<"o","n","c","o","l","o","g","y">>, <<"c","a","n","c","e","r">>>>, v |-> <<"O","n","c","o","l","o","g","y">>],
    [k |-> <<<<"d","e","r","m","a">>, <<"d","e","r","m","a","t","o","l","o","g","y">>, <<"s","k","i","n">>>>, v |-> <<"D","e","r","m","a","t","o","l","o","g","y">>],
    [k |-> <<<<"g","a","s","t","r","o">>, <<"g","a","s","t","r","o","e","n","t","e","r","o","l","o","g","y">>, <<"s","t","o","m","a","c","h">>>>, v |-> <<"G","a","s","t","r","o","e","n","t","e","r","o","l","o","g","y">>] >>

\* the first alias row with a keyword in the text wins, then the first
\* canonical name
detectDept(text) ==
    LET tNorm == normalize(text)
        hit == {i \in DOMAIN DeptAliases : someIncluded(tNorm, DeptAliases[i].k)}
        direct == {i \in DOMAIN DEPARTMENTS : includes(tNorm, normalize(DEPARTMENTS[i]))}
    IN  IF hit /= {} THEN DeptAliases[SetMin(hit)].v
        ELSE IF direct /= {} THEN DEPARTMENTS[SetMin(direct)]
        ELSE null

\* Array.prototype.filter over a tuple
RECURSIVE filterSeq(_, _, _)
filterSeq(xs, keep(_), i) ==
    IF i > Len(xs) THEN <<>>
    ELSE (IF keep(xs[i]) THEN <<xs[i]>> ELSE <<>>) \o filterSeq(xs, keep, i + 1)

listDoctorsByDept(dept, location) ==
    filterSeq(DOCTORS, LAMBDA x : normalize(x.dept) = normalize(dept) /\ normalize(x.location) = normalize(location), 1)

doctorsNamed(q) ==
    IF q = <<>> THEN <<>> ELSE firstN(filterSeq(DOCTORS, LAMBDA d : includes(normalize(d.name), q), 1), 5)
\* .replace(/^dr\.?\s*/i, "")
withoutDr(n) == IF matchAt(n, 0, <<"d","r">>) THEN slice(n, skipSpace(n, IF matchAt(n, 2, <<".">>) THEN 3 ELSE 2)) ELSE n
findDoctorByName(query) == doctorsNamed(withoutDr(normalize(query)))

\* norm.includes("dr ") || norm.includes("dr.") || norm.includes("doctor ")
hasDoctorRef(norm) == includes(norm, <<"d","r"," ">>) \/ includes(norm, <<"d","r",".">>) \/ includes(norm, <<"d","o","c","t","o","r"," ">>)

\* the text after the first "doctor", else after the first "dr"
doctorQuery(tRaw) ==
    LET norm == normalize(tRaw)
        idx == indexOf(norm, <<"d","r">>)
        idx2 == indexOf(norm, <<"d","o","c","t","o","r">>)
    IN  IF idx2 >= 0 THEN trim(slice(tRaw, idx2 + 6))
        ELSE IF idx >= 0 THEN trim(slice(tRaw, idx + 2))
        ELSE tRaw

\* ------------------------------------------------------------------------
\* Preferred time
\* ------------------------------------------------------------------------
TimeWords == <<<<"m","o","r","n","i","n","g">>, <<"e","v","e","n","i","n","g">>, <<"a","f","t","e","r","n","o","o","n">>, <<"n","i","g","h","t">>, <<"a",".","m",".">>, <<"p",".","m",".">>, <<"a","m">>, <<"p","m">>, <<"s","u","b","a","h">>, <<"s","h","a","a","m">>, <<"d","o","p","a","h","a","r">>, <<"r","a","a","t">>, <<"u0938","u0941","u092C","u0939">>, <<"u0936","u093E","u092E">>, <<"u0926","u094B","u092A","u0939","u0930">>, <<"u0930","u093E","u0924">>>>
DayWords == <<<<"t","o","d","a","y">>, <<"t","o","m","o","r","r","o","w">>, <<"m","o","n","d","a","y">>, <<"t","u","e","s","d","a","y">>, <<"w","e","d","n","e","s","d","a","y">>, <<"t","h","u","r","s","d","a","y">>, <<"f","r","i","d","a","y">>, <<"s","a","t","u","r","d","a","y">>, <<"s","u","n","d","a","y">>, <<"a","a","j">>, <<"k","a","l">>, <<"p","a","r","s","o">>, <<"u0906","u091C">>, <<"u0915","u0932">>, <<"u092A","u0930","u0938","u094B","u0902">>>>
\* the alternatives of the two match() expressions, in their order
DayPattern == <<<<"t","o","d","a","y">>, <<"t","o","m","o","r","r","o","w">>, <<"m","o","n","d","a","y">>, <<"t","u","e","s","d","a","y">>, <<"w","e","d","n","e","s","d","a","y">>, <<"t","h","u","r","s","d","a","y">>, <<"f","r","i","d","a","y">>, <<"s","a","t","u","r","d","a","y">>, <<"s","u","n","d","a","y">>, <<"a","a","j">>, <<"k","a","l">>, <<"p","a","r","s","o">>, <<"u0906","u091C">>, <<"u0915","u0932">>, <<"u092A","u0930","u0938","u094B","u0902">>>>
PartOfDayPattern == <<<<"m","o","r","n","i","n","g">>, <<"e","v","e","n","i","n","g">>, <<"a","f","t","e","r","n","o","o","n">>, <<"n","i","g","h","t">>, <<"s","u","b","a","h">>, <<"s","h","a","a","m">>, <<"d","o","p","a","h","a","r">>, <<"r","a","a","t">>, <<"u0938","u0941","u092C","u0939">>, <<"u0936","u093E","u092E">>, <<"u0926","u094B","u092A","u0939","u0930">>, <<"u0930","u093E","u0924">>>>
Meridiems == <<<<"a","m">>, <<"p","m">>, <<"a",".","m",".">>, <<"p",".","m",".">>>>

\* /\b\d{1,2}(:\d{2})?\s*(am|pm|a\.m\.|p\.m\.)\b/i.test(raw) || /\b\d{1,2}(:\d{2})\b/.test(raw)
hasClockTime(raw) ==
    LET low == toLowerCase(raw)
        digitsAt(i, n) == i + n <= Len(raw) /\ \A x \in (i + 1)..(i + n) : IsDigit(raw[x])
        minutesAt(i) == matchAt(raw, i, <<":">>) /\ digitsAt(i + 1, 2)
        \* the offsets after \d{1,2} from offset i
        hours(i) == {i + n : n \in {k \in 1..2 : digitsAt(i, k)}}
        meridiemAt(i) == \E k \in DOMAIN Meridiems :
                            matchAt(low, i, Meridiems[k]) /\ boundary(raw, i + Len(Meridiems[k]))
    IN  \E i \in 0..Len(raw) :
            /\ boundary(raw, i)
            /\ \E h \in hours(i) :
                  \/ meridiemAt(skipSpace(raw, h))
                  \/ minutesAt(h) /\ meridiemAt(skipSpace(raw, h + 3))
                  \/ minutesAt(h) /\ boundary(raw, h + 3)

\* the leftmost \b(word)\b of a pattern list in raw: <<offset, length>>,
\* <<-1, 0>> when there is none
wordsAt(raw, low, words, i) ==
    {k \in DOMAIN words : matchAt(low, i, words[k]) /\ boundary(raw, i) /\ boundary(raw, i + Len(words[k]))}
leftmost(raw, low, words, starts) ==
    IF starts = {} THEN <<-1, 0>> ELSE <<SetMin(starts), Len(words[SetMin(wordsAt(raw, low, words, SetMin(starts)))])>>
wordMatch(raw, words) ==
    leftmost(raw, toLowerCase(raw), words, {i \in 0..Len(raw) : wordsAt(raw, toLowerCase(raw), words, i) /= {}})

\* [^.]{0,40} from offset i
upToDot(raw, i) == SetMax({n \in 0..40 : i + n <= Len(raw) /\ \A x \in 1..n : raw[i + x] /= "."})
timePhrase(raw, day, part) ==
    IF day[1] >= 0 THEN trim(SubSeq(raw, day[1] + 1, day[1] + day[2] + upToDot(raw, day[1] + day[2])))
    ELSE IF part[1] >= 0 THEN trim(SubSeq(raw, part[1] + 1, part[1] + part[2]))
    ELSE trim(raw)
timeIn(raw, tNorm) ==
    IF ~(\/ \E i \in DOMAIN DayWords : includes(tNorm, normalize(DayWords[i]))
         \/ \E i \in DOMAIN TimeWords : includes(tNorm, normalize(TimeWords[i]))
         \/ hasClockTime(raw))
    THEN null
    ELSE timePhrase(raw, wordMatch(raw, DayPattern), wordMatch(raw, PartOfDayPattern))
extractPreferredTime(text) == timeIn(trim(text), normalize(trim(text)))

\* parseInt(s, 10) of a trimmed string: <<FALSE, 0>> is NaN.  Values are
\* only compared with the length of a doctor list, so digits beyond
\* ParseIntCap saturate.
ParseIntCap == 1000
RECURSIVE decimal(_, _, _)
decimal(s, i, acc) ==
    IF i > Len(s) \/ ~IsDigit(s[i]) THEN acc
    ELSE decimal(s, i + 1,
            LET v == acc * 10 + ((CHOOSE k \in 1..10 : Digits[k] = s[i]) - 1)
            IN  IF v > ParseIntCap THEN ParseIntCap ELSE v)
parseInt(s) ==
    LET signed == Len(s) >= 1 /\ s[1] \in {"+", "-"}
        first == IF signed THEN 2 ELSE 1
    IN  IF first > Len(s) \/ ~IsDigit(s[first]) THEN <<FALSE, 0>>
        ELSE <<TRUE, (IF signed /\ s[1] = "-" THEN -1 ELSE 1) * decimal(s, first, 0)>>

\* ------------------------------------------------------------------------
\* Response composer.  A message is kept as the prompt chosen and the values
\* interpolated into it; Render gives its text.
\*   kind, hi: the template and the branch of t()/isHi() taken
\*   doctor:   index into DOCTORS (0: none), dept: a department (or null)
\*   booking:  the values of a confirmation (<<>>: none)
\*   reworded: the paraphrasing collaborator returned other words for it
\* ------------------------------------------------------------------------
HOSPITAL_NAME == <<"M","e","d","a","n","t","a">>

Prompt(kind, hi) == [kind |-> kind, hi |-> hi, doctor |-> 0, dept |-> null, booking |-> <<>>, reworded |-> FALSE]
DoctorPrompt(kind, hi, d) == [Prompt(kind, hi) EXCEPT !.doctor = d]
DeptPrompt(kind, hi, dept) == [Prompt(kind, hi) EXCEPT !.dept = dept]

\* s.replace(/pattern/gi, repl) for a pattern that is a literal, possibly
\* between two \b
RECURSIVE replaceAll(_, _, _, _, _)
replaceAll(s, i, word, bounded, repl) ==
    IF i >= Len(s) THEN <<>>
    ELSE IF /\ matchAt(toLowerCase(s), i, word)
            /\ bounded => boundary(s, i) /\ boundary(s, i + Len(word))
         THEN repl \o replaceAll(s, i + Len(word), word, bounded, repl)
         ELSE <<s[i + 1]>> \o replaceAll(s, i + 1, word, bounded, repl)

WeekdaysHindi == <<
    <<<<"t","o","m","o","r","r","o","w">>, <<"u0915","u0932">>>>, <<<<"t","o","d","a","y">>, <<"u0906","u091C">>>>, <<<<"t","h","u","r","s","d","a","y">>, <<"u0917","u0941","u0930","u0941","u0935","u093E","u0930">>>>,
    <<<<"f","r","i","d","a","y">>, <<"u0936","u0941","u0915","u094D","u0930","u0935","u093E","u0930">>>>, <<<<"s","a","t","u","r","d","a","y">>, <<"u0936","u0928","u093F","u0935","u093E","u0930">>>>, <<<<"s","u","n","d","a","y">>, <<"u0930","u0935","u093F","u0935","u093E","u0930">>>>,
    <<<<"m","o","n","d","a","y">>, <<"u0938","u094B","u092E","u0935","u093E","u0930">>>>, <<<<"t","u","e","s","d","a","y">>, <<"u092E","u0902","u0917","u0932","u0935","u093E","u0930">>>>, <<<<"w","e","d","n","e","s","d","a","y">>, <<"u092C","u0941","u0927","u0935","u093E","u0930">>>> >>

RECURSIVE replaceDays(_, _)
replaceDays(s, k) ==
    IF k > Len(WeekdaysHindi) THEN s
    ELSE replaceDays(replaceAll(s, 0, WeekdaysHindi[k][1], TRUE, WeekdaysHindi[k][2]), k + 1)

\* \b(\d{1,2})(?::(\d{2}))?\s*(am|a\.m\.)\b at offset i (pm likewise):
\* <<digits of the hour, has minutes, length of the match>>, <<0, FALSE, 0>>
\* when it does not match there
digitsAt(s, j, n) == j + n <= Len(s) /\ \A x \in (j + 1)..(j + n) : IsDigit(s[x])
meridiemsAt(s, j, meridiems) ==
    {k \in DOMAIN meridiems : /\ matchAt(toLowerCase(s), skipSpace(s, j), meridiems[k])
                              /\ boundary(s, skipSpace(s, j) + Len(meridiems[k]))}
meridiemEnd(s, j, meridiems) == skipSpace(s, j) + Len(meridiems[SetMin(meridiemsAt(s, j, meridiems))])
\* with n digits of hour
clockOf(s, i, n, meridiems) ==
    IF ~(boundary(s, i) /\ digitsAt(s, i, n)) THEN <<0, FALSE, 0>>
    ELSE IF matchAt(s, i + n, <<":">>) /\ digitsAt(s, i + n + 1, 2) /\ meridiemsAt(s, i + n + 3, meridiems) /= {}
         THEN <<n, TRUE, meridiemEnd(s, i + n + 3, meridiems) - i>>
    ELSE IF meridiemsAt(s, i + n, meridiems) /= {} THEN <<n, FALSE, meridiemEnd(s, i + n, meridiems) - i>>
    ELSE <<0, FALSE, 0>>
firstClock(two, one) == IF two[1] > 0 THEN two ELSE one
clockAt(s, i, meridiems) == firstClock(clockOf(s, i, 2, meridiems), clockOf(s, i, 1, meridiems))

\* a bucketing that counts 5 PM as afternoon
dayPartHindiLate(h, pm) ==
    IF ~pm THEN <<"u0938","u0941","u092C","u0939">>
    ELSE IF h = 12 THEN <<"u0926","u094B","u092A","u0939","u0930">>
    ELSE IF h >= 1 /\ h <= 5 THEN <<"u0926","u094B","u092A","u0939","u0930">>
    ELSE IF h >= 6 /\ h <= 7 THEN <<"u0936","u093E","u092E">>
    ELSE <<"u0930","u093E","u0924">>
\* the word slotToHindi puts before the hour
dayPartHindi(h, pm) ==
    IF ~pm THEN <<"u0938","u0941","u092C","u0939">>
    ELSE IF h = 12 THEN <<"u0926","u094B","u092A","u0939","u0930">>
    ELSE IF h >= 1 /\ h <= 4 THEN <<"u0926","u094B","u092A","u0939","u0930">>
    ELSE IF h >= 5 /\ h <= 7 THEN <<"u0936","u093E","u092E">>
    ELSE <<"u0930","u093E","u0924">>

\* `दोपहर 12${m} बजे` writes 12 itself; the other branches write Number(hh)
shownHour(hh, pm) ==
    IF pm THEN (IF decimal(hh, 1, 0) = 12 THEN <<"1","2">>
                ELSE SubSeq(hh, IF Len(hh) = 2 /\ hh[1] = "0" THEN 2 ELSE 1, Len(hh)))
    ELSE hh
clockHindi(hh, mm, pm) == dayPartHindi(decimal(hh, 1, 0), pm) \o <<" ">> \o shownHour(hh, pm) \o mm \o <<" ","u092C","u091C","u0947">>

RECURSIVE replaceClock(_, _, _)
\* m: the match of clockAt at offset i
replaceClockAt(s, i, pm, m) ==
    IF m[1] > 0
    THEN clockHindi(SubSeq(s, i + 1, i + m[1]), IF m[2] THEN SubSeq(s, i + m[1] + 1, i + m[1] + 3) ELSE <<>>, pm)
           \o replaceClock(s, i + m[3], pm)
    ELSE <<s[i + 1]>> \o replaceClock(s, i + 1, pm)
replaceClock(s, i, pm) ==
    IF i >= Len(s) THEN <<>>
    ELSE replaceClockAt(s, i, pm, clockAt(s, i, IF pm THEN <<<<"p","m">>, <<"p",".","m",".">>>> ELSE <<<<"a","m">>, <<"a",".","m",".">>>>))

hindiSlot(s) ==
    IF s = <<>> THEN s
    ELSE replaceClock(replaceClock(replaceDays(replaceAll(s, 0, <<"d","a","y"," ","a","f","t","e","r"," ","t","o","m","o","r","r","o","w">>, FALSE, <<"u092A","u0930","u0938","u094B","u0902">>), 1), 0, FALSE), 0, TRUE)
slotToHindi(slot) == hindiSlot(trim(slot))

\* Array.prototype.join(", ")
RECURSIVE join(_, _)
join(xs, i) == IF i > Len(xs) THEN <<>>
               ELSE xs[i] \o (IF i < Len(xs) THEN <<","," ">> ELSE <<>>) \o join(xs, i + 1)

slotsText(hi, slots) ==
    IF slots = <<>>
    THEN (IF hi THEN <<"u0905","u0917","u0932","u0947"," ","u0909","u092A","u0932","u092C","u094D","u0927"," ","u0938","u094D","u0932","u0949","u091F"," ","u092C","u0941","u0915","u093F","u0902","u0917"," ","u091F","u0940","u092E"," ","u0938","u093E","u091D","u093E"," ","u0915","u0930","u0947","u0917","u0940","u0964">>
                ELSE <<"N","e","x","t"," ","a","v","a","i","l","a","b","l","e"," ","s","l","o","t","s"," ","w","i","l","l"," ","b","e"," ","s","h","a","r","e","d"," ","b","y"," ","t","h","e"," ","b","o","o","k","i","n","g"," ","t","e","a","m",".">>)
    ELSE IF hi THEN <<"u0905","u0917","u0932","u0947"," ","u0909","u092A","u0932","u092C","u094D","u0927"," ","u0938","u094D","u0932","u0949","u091F",":"," ">> \o join([i \in DOMAIN slots |-> slotToHindi(slots[i])], 1) \o <<"u0964">>
    ELSE <<"N","e","x","t"," ","a","v","a","i","l","a","b","l","e",":"," ">> \o join(slots, 1) \o <<".">>
pickSlots(hi, d) == slotsText(hi, firstN(d.nextSlots, 3))

\* docs.slice(0, 3).map((d, i) => `${d.name} (${i + 1})`).join(", ")
numberedNames(top) == join([i \in DOMAIN top |-> top[i].name \o <<" ","(">> \o <<Digits[i + 1]>> \o <<")">>], 1)
doctorNames(dept) == numberedNames(firstN(listDoctorsByDept(dept, <<"G","u","r","g","a","o","n">>), 3))

confirmationText(hi, b) ==
    IF hi
    THEN <<"u0920","u0940","u0915"," ","u0939","u0948","u0964"," ","u0906","u092A","u0915","u0940"," ","u0905","u092A","u0949","u0907","u0902","u091F","u092E","u0947","u0902","u091F"," ","u0930","u093F","u0915","u094D","u0935","u0947","u0938","u094D","u091F"," ","u0926","u0930","u094D","u091C"," ","u0939","u094B"," ","u0917","u0908"," ","u0939","u0948","u0964"," ">>
         \o (IF truthy(b.patientName) THEN <<"u092E","u0930","u0940","u091C","u093C",":"," ">> \o b.patientName \o <<"."," ">> ELSE <<>>)
         \o (IF truthy(b.doctorName) THEN <<"u0921","u0949","u0915","u094D","u091F","u0930",":"," ">> \o b.doctorName \o <<"."," ">>
             ELSE IF truthy(b.dept) THEN <<"u0935","u093F","u092D","u093E","u0917",":"," ">> \o b.dept \o <<"."," ">> ELSE <<>>)
         \o (IF truthy(b.preferredTime) THEN <<"u092A","u0938","u0902","u0926","u0940","u0926","u093E"," ","u0938","u092E","u092F",":"," ">> \o b.preferredTime \o <<"."," ">> ELSE <<>>)
         \o <<"u0915","u0928","u094D","u092B","u0930","u094D","u092E","u0947","u0936","u0928"," ","u0906","u0908","u0921","u0940",":"," ">> \o b.confirmationId \o <<"."," ">>
         \o (IF truthy(b.phone) THEN <<"u0915","u0928","u094D","u092B","u0930","u094D","u092E","u0947","u0936","u0928"," ">> \o b.phone \o <<" ","u092A","u0930"," ","u092D","u0947","u091C","u093E"," ","u091C","u093E","u090F","u0917","u093E","u0964">>
             ELSE <<"u0915","u0928","u094D","u092B","u0930","u094D","u092E","u0947","u0936","u0928"," ","u0906","u092A","u0915","u0947"," ","u0928","u0902","u092C","u0930"," ","u092A","u0930"," ","u092D","u0947","u091C","u093E"," ","u091C","u093E","u090F","u0917","u093E","u0964">>)
    ELSE <<"D","o","n","e","."," ","I","u2019","v","e"," ","r","a","i","s","e","d"," ","a","n"," ","a","p","p","o","i","n","t","m","e","n","t"," ","r","e","q","u","e","s","t"," ","f","o","r"," ">>
         \o (IF truthy(b.patientName) THEN b.patientName ELSE <<"t","h","e"," ","p","a","t","i","e","n","t">>) \o <<" ">>
         \o (IF truthy(b.doctorName) THEN <<"w","i","t","h"," ">> \o b.doctorName ELSE <<>>)
         \o (IF truthy(b.dept) THEN <<" ","i","n"," ">> \o b.dept ELSE <<>>) \o <<"."," ">>
         \o (IF truthy(b.preferredTime) THEN <<"P","r","e","f","e","r","r","e","d"," ","t","i","m","e",":"," ">> \o b.preferredTime \o <<"."," ">> ELSE <<>>)
         \o <<"C","o","n","f","i","r","m","a","t","i","o","n"," ","I","D"," ","i","s"," ">> \o b.confirmationId \o <<"."," ","Y","o","u"," ","w","i","l","l"," ","r","e","c","e","i","v","e"," ","c","o","n","f","i","r","m","a","t","i","o","n"," ","o","n"," ">>
         \o (IF truthy(b.phone) THEN b.phone ELSE <<"y","o","u","r"," ","n","u","m","b","e","r">>) \o <<".">>

Text(m, d, slots, names) ==
        CASE m.kind = "handoff" ->
               IF m.hi THEN <<"u091C","u093C","u0930","u0942","u0930","u0964"," ","u092E","u0948","u0902"," ","u0906","u092A","u0915","u094B"," ","u0905","u092D","u0940"," ","u090F","u0915"," ","u092E","u093E","u0928","u0935"," ","u092A","u094D","u0930","u0924","u093F","u0928","u093F","u0927","u093F"," ","u0938","u0947"," ","u091C","u094B","u0921","u093C"," ","u0930","u0939","u093E","/","u0930","u0939","u0940"," ","u0939","u0942","u0901","u0964">>
               ELSE <<"S","u","r","e","."," ","I","u2019","m"," ","c","o","n","n","e","c","t","i","n","g"," ","y","o","u"," ","t","o"," ","a"," ","h","u","m","a","n"," ","r","e","p","r","e","s","e","n","t","a","t","i","v","e"," ","n","o","w",".">>
          [] m.kind = "askDepartment" ->
               IF m.hi THEN <<"u091C","u093C","u0930","u0942","u0930","u0964"," ","u0906","u092A","u0915","u094B"," ","u0915","u093F","u0938"," ","u0935","u093F","u092D","u093E","u0917"," ","u092E","u0947","u0902"," ","u0905","u092A","u0949","u0907","u0902","u091F","u092E","u0947","u0902","u091F"," ","u091A","u093E","u0939","u093F","u090F","?"," ","u091C","u0948","u0938","u0947"," ","u0915","u093E","u0930","u094D","u0921","u093F","u092F","u094B","u0932","u0949","u091C","u0940",","," ","u0911","u0930","u094D","u0925","u094B","u092A","u0947","u0921","u093F","u0915","u094D","u0938"," ","u092F","u093E"," ","u0908","u090F","u0928","u091F","u0940","u0964"," ","u092F","u093E"," ","u201C","D","r","u201D"," ","u092C","u094B","u0932","u0915","u0930"," ","u0921","u0949","u0915","u094D","u091F","u0930"," ","u0915","u093E"," ","u0928","u093E","u092E"," ","u092C","u0924","u093E","u0907","u090F","u0964">>
               ELSE <<"S","u","r","e","."," ","W","h","i","c","h"," ","d","e","p","a","r","t","m","e","n","t"," ","d","o"," ","y","o","u"," ","n","e","e","d","?"," ","F","o","r"," ","e","x","a","m","p","l","e"," ","C","a","r","d","i","o","l","o","g","y",","," ","O","r","t","h","o","p","e","d","i","c","s"," ","o","r"," ","E","N","T","."," ","O","r"," ","s","a","y"," ","u201C","D","r","u201D"," ","a","n","d"," ","t","h","e"," ","d","o","c","t","o","r","u2019","s"," ","n","a","m","e",".">>
          [] m.kind = "routeBack" ->
               IF m.hi THEN <<"u092E","u0948","u0902"," ">> \o HOSPITAL_NAME \o <<" ","u092E","u0947","u0902"," ","u0905","u092A","u0949","u0907","u0902","u091F","u092E","u0947","u0902","u091F"," ","u092E","u0947","u0902"," ","u092E","u0926","u0926"," ","u0915","u0930"," ","u0938","u0915","u0924","u093E","/","u0938","u0915","u0924","u0940"," ","u0939","u0942","u0901","u0964"," ","u0915","u0943","u092A","u092F","u093E"," ","u0935","u093F","u092D","u093E","u0917"," ","(","u091C","u0948","u0938","u0947"," ","u0915","u093E","u0930","u094D","u0921","u093F","u092F","u094B","u0932","u0949","u091C","u0940",")"," ","u092F","u093E"," ","u0921","u0949","u0915","u094D","u091F","u0930"," ","u0915","u093E"," ","u0928","u093E","u092E"," ","u092C","u0924","u093E","u0907","u090F","u0964">>
               ELSE <<"I"," ","c","a","n"," ","h","e","l","p"," ","w","i","t","h"," ","a","p","p","o","i","n","t","m","e","n","t","s"," ","a","t"," ">> \o HOSPITAL_NAME \o <<"."," ","P","l","e","a","s","e"," ","s","a","y"," ","t","h","e"," ","d","e","p","a","r","t","m","e","n","t"," ","(","l","i","k","e"," ","C","a","r","d","i","o","l","o","g","y",")"," ","o","r"," ","t","h","e"," ","d","o","c","t","o","r","u2019","s"," ","n","a","m","e",".">>
          [] m.kind = "askTimeBrief" ->
               IF m.hi THEN <<"u092C","u0939","u0941","u0924"," ","u092C","u0922","u093C","u093F","u092F","u093E","u0964"," ","u0906","u092A"," ","u0915","u093F","u0938"," ","u0926","u093F","u0928"," ","u092F","u093E"," ","u0915","u093F","u0938"," ","u0938","u092E","u092F"," ","u0906","u0928","u093E"," ","u091A","u093E","u0939","u0947","u0902","u0917","u0947","?">>
               ELSE <<"G","r","e","a","t","."," ","W","h","a","t"," ","d","a","y"," ","o","r"," ","t","i","m","e"," ","d","o"," ","y","o","u"," ","p","r","e","f","e","r","?">>
          [] m.kind = "askName" ->
               IF m.hi THEN <<"u0915","u0943","u092A","u092F","u093E"," ","u092E","u0930","u0940","u091C","u093C"," ","u0915","u093E"," ","u092A","u0942","u0930","u093E"," ","u0928","u093E","u092E"," ","u092C","u0924","u093E","u0907","u090F","u0964">>
               ELSE <<"P","l","e","a","s","e"," ","t","e","l","l"," ","m","e"," ","t","h","e"," ","p","a","t","i","e","n","t","u2019","s"," ","f","u","l","l"," ","n","a","m","e",".">>
          [] m.kind = "askPhone" ->
               IF m.hi THEN <<"u0927","u0928","u094D","u092F","u0935","u093E","u0926","u0964"," ","u0915","u0928","u094D","u092B","u0930","u094D","u092E","u0947","u0936","u0928"," ","u0915","u0947"," ","u0932","u093F","u090F"," ","u0905","u092A","u0928","u093E"," ","1","0"," ","u0905","u0902","u0915","u094B","u0902"," ","u0915","u093E"," ","u092E","u094B","u092C","u093E","u0907","u0932"," ","u0928","u0902","u092C","u0930"," ","u092C","u0924","u093E","u0907","u090F","u0964">>
               ELSE <<"T","h","a","n","k","s","."," ","P","l","e","a","s","e"," ","t","e","l","l"," ","m","e"," ","y","o","u","r"," ","1","0","-","d","i","g","i","t"," ","m","o","b","i","l","e"," ","n","u","m","b","e","r"," ","f","o","r"," ","c","o","n","f","i","r","m","a","t","i","o","n",".">>
          [] m.kind = "reaskPhone" ->
               IF m.hi THEN <<"u092E","u093E","u092B","u093C"," ","u0915","u0940","u091C","u093F","u090F",","," ","u0928","u0902","u092C","u0930"," ","u0938","u093E","u092B","u093C"," ","u0928","u0939","u0940","u0902"," ","u092E","u093F","u0932","u093E","u0964"," ","u0915","u0943","u092A","u092F","u093E"," ","1","0"," ","u0905","u0902","u0915","u094B","u0902"," ","u0915","u093E"," ","u092E","u094B","u092C","u093E","u0907","u0932"," ","u0928","u0902","u092C","u0930"," ","u0926","u094B","u092C","u093E","u0930","u093E"," ","u092C","u0924","u093E","u0907","u090F","u0964">>
               ELSE <<"S","o","r","r","y",","," ","I"," ","d","i","d","n","u2019","t"," ","c","a","t","c","h"," ","t","h","e"," ","n","u","m","b","e","r","."," ","P","l","e","a","s","e"," ","s","a","y"," ","t","h","e"," ","1","0","-","d","i","g","i","t"," ","m","o","b","i","l","e"," ","n","u","m","b","e","r"," ","a","g","a","i","n",".">>
          [] m.kind = "askTime" ->
               IF m.hi THEN <<"u092C","u0939","u0941","u0924"," ","u092C","u0922","u093C","u093F","u092F","u093E","u0964"," ","u0906","u092A"," ","u0915","u093F","u0938"," ","u0926","u093F","u0928"," ","u092F","u093E"," ","u0915","u093F","u0938"," ","u0938","u092E","u092F"," ","u0906","u0928","u093E"," ","u091A","u093E","u0939","u0947","u0902","u0917","u0947","?"," ","u091C","u0948","u0938","u0947"," ","u0915","u0932"," ","u0936","u093E","u092E"," ","u092F","u093E"," ","u0936","u0941","u0915","u094D","u0930","u0935","u093E","u0930"," ","u0938","u0941","u092C","u0939","u0964">>
               ELSE <<"G","r","e","a","t","."," ","W","h","a","t"," ","d","a","y"," ","o","r"," ","t","i","m","e"," ","d","o"," ","y","o","u"," ","p","r","e","f","e","r","?"," ","F","o","r"," ","e","x","a","m","p","l","e",","," ","t","o","m","o","r","r","o","w"," ","e","v","e","n","i","n","g"," ","o","r"," ","F","r","i","d","a","y"," ","m","o","r","n","i","n","g",".">>
          [] m.kind = "confirmation" -> confirmationText(m.hi, m.booking)
          [] m.kind = "doctorResolved" ->
               IF m.hi THEN <<"u0920","u0940","u0915"," ","u0939","u0948","u0964"," ">> \o d.name \o <<" ">> \o d.dept \o <<" ","u0935","u093F","u092D","u093E","u0917"," ","u092E","u0947","u0902"," ","u0939","u0948","u0902","u0964"," ">> \o slots \o <<" ","u092C","u0941","u0915"," ","u0915","u0930","u0928","u0947"," ","u0915","u0947"," ","u0932","u093F","u090F"," ","u0915","u0943","u092A","u092F","u093E"," ","u092E","u0930","u0940","u091C","u093C"," ","u0915","u093E"," ","u092A","u0942","u0930","u093E"," ","u0928","u093E","u092E"," ","u092C","u0924","u093E","u0907","u090F","u0964">>
               ELSE <<"S","u","r","e","."," ">> \o d.name \o <<" ","i","s"," ","i","n"," ">> \o d.dept \o <<"."," ">> \o slots \o <<" ","T","o"," ","b","o","o","k",","," ","p","l","e","a","s","e"," ","t","e","l","l"," ","m","e"," ","t","h","e"," ","p","a","t","i","e","n","t","u2019","s"," ","f","u","l","l"," ","n","a","m","e",".">>
          [] m.kind = "doctorNotFound" ->
               IF m.hi THEN <<"u092E","u093E","u092B","u093C"," ","u0915","u0940","u091C","u093F","u090F",","," ","u0935","u0939"," ","u0921","u0949","u0915","u094D","u091F","u0930"," ","u0928","u0939","u0940","u0902"," ","u092E","u093F","u0932","u093E","u0964"," ","u0915","u0943","u092A","u092F","u093E"," ","u0935","u093F","u092D","u093E","u0917"," ","u092C","u0924","u093E","u0907","u090F","u0964">>
               ELSE <<"I"," ","c","o","u","l","d","n","u2019","t"," ","f","i","n","d"," ","t","h","a","t"," ","d","o","c","t","o","r","."," ","P","l","e","a","s","e"," ","s","a","y"," ","t","h","e"," ","d","e","p","a","r","t","m","e","n","t",".">>
          [] m.kind = "noDoctorsListed" ->
               IF m.hi THEN <<"u0907","u0938"," ","u0938","u092E","u092F"," ">> \o m.dept \o <<" ","u0915","u0947"," ","u0921","u0949","u0915","u094D","u091F","u0930","u094B","u0902"," ","u0915","u0940"," ","u0938","u0942","u091A","u0940"," ","u0909","u092A","u0932","u092C","u094D","u0927"," ","u0928","u0939","u0940","u0902"," ","u0939","u0948","u0964"," ","u0915","u094D","u092F","u093E"," ","u0906","u092A"," ","u090F","u091C","u0947","u0902","u091F"," ","u0938","u0947"," ","u092C","u093E","u0924"," ","u0915","u0930","u0928","u093E"," ","u091A","u093E","u0939","u0947","u0902","u0917","u0947","?">>
               ELSE <<"I"," ","d","o","n","u2019","t"," ","h","a","v","e"," ","d","o","c","t","o","r","s"," ","l","i","s","t","e","d"," ","f","o","r"," ">> \o m.dept \o <<"."," ","W","o","u","l","d"," ","y","o","u"," ","l","i","k","e"," ","t","o"," ","c","o","n","n","e","c","t"," ","t","o"," ","a","n"," ","a","g","e","n","t","?">>
          [] m.kind = "listDoctors" ->
               IF m.hi THEN m.dept \o <<" ","u0915","u0947"," ","u0921","u0949","u0915","u094D","u091F","u0930"," ","u0939","u0948","u0902",":"," ">> \o names \o <<"u0964"," ","u0906","u092A"," ","u0915","u093F","u0938","u0938","u0947"," ","u0905","u092A","u0949","u0907","u0902","u091F","u092E","u0947","u0902","u091F"," ","u0932","u0947","u0928","u093E"," ","u091A","u093E","u0939","u0947","u0902","u0917","u0947","?"," ","u0906","u092A"," ","u0921","u0949","u0915","u094D","u091F","u0930"," ","u0915","u093E"," ","u0928","u093E","u092E"," ","u092F","u093E"," ","1","/","2"," ","u092C","u094B","u0932"," ","u0938","u0915","u0924","u0947"," ","u0939","u0948","u0902","u0964">>
               ELSE m.dept \o <<" ","d","o","c","t","o","r","s"," ","i","n","c","l","u","d","e"," ">> \o names \o <<"."," ","W","h","i","c","h"," ","o","n","e"," ","w","o","u","l","d"," ","y","o","u"," ","l","i","k","e"," ","t","o"," ","b","o","o","k","?"," ","Y","o","u"," ","c","a","n"," ","s","a","y"," ","t","h","e"," ","d","o","c","t","o","r","u2019","s"," ","n","a","m","e"," ","o","r"," ","1","/","2",".">>
          [] m.kind = "doctorChosen" ->
               IF m.hi THEN <<"u0920","u0940","u0915"," ","u0939","u0948","u0964"," ">> \o d.name \o <<"u0964"," ">> \o slots \o <<" ","u092C","u0941","u0915"," ","u0915","u0930","u0928","u0947"," ","u0915","u0947"," ","u0932","u093F","u090F"," ","u0915","u0943","u092A","u092F","u093E"," ","u092E","u0930","u0940","u091C","u093C"," ","u0915","u093E"," ","u092A","u0942","u0930","u093E"," ","u0928","u093E","u092E"," ","u092C","u0924","u093E","u0907","u090F","u0964">>
               ELSE <<"S","u","r","e","."," ">> \o d.name \o <<"."," ">> \o slots \o <<" ","T","o"," ","b","o","o","k",","," ","p","l","e","a","s","e"," ","t","e","l","l"," ","m","e"," ","t","h","e"," ","p","a","t","i","e","n","t","u2019","s"," ","f","u","l","l"," ","n","a","m","e",".">>
          [] m.kind = "chooseDoctor" ->
               IF m.hi THEN <<"u0915","u0943","u092A","u092F","u093E"," ","u0921","u0949","u0915","u094D","u091F","u0930"," ","u0915","u093E"," ","u092A","u0942","u0930","u093E"," ","u0928","u093E","u092E"," ","(","u092F","u093E"," ","1","/","2",")"," ","u092C","u0924","u093E","u0907","u090F",","," ","u092F","u093E"," ","u2018","u090F","u091C","u0947","u0902","u091F","u2019"," ","u092C","u094B","u0932","u093F","u090F","u0964">>
               ELSE <<"P","l","e","a","s","e"," ","s","a","y"," ","t","h","e"," ","f","u","l","l"," ","d","o","c","t","o","r"," ","n","a","m","e"," ","(","o","r"," ","1","/","2",")",","," ","o","r"," ","s","a","y"," ","a","g","e","n","t",".">>
          [] m.kind = "fallback" ->
               IF m.hi THEN <<"u092E","u0948","u0902"," ">> \o HOSPITAL_NAME \o <<" ","u092E","u0947","u0902"," ","u0905","u092A","u0949","u0907","u0902","u091F","u092E","u0947","u0902","u091F"," ","u092E","u0947","u0902"," ","u092E","u0926","u0926"," ","u0915","u0930"," ","u0938","u0915","u0924","u093E","/","u0938","u0915","u0924","u0940"," ","u0939","u0942","u0901","u0964"," ","u0935","u093F","u092D","u093E","u0917"," ","u092C","u094B","u0932","u093F","u090F"," ","u091C","u0948","u0938","u0947"," ","u0915","u093E","u0930","u094D","u0921","u093F","u092F","u094B","u0932","u0949","u091C","u0940",","," ","u092F","u093E"," ","u201C","D","r","u201D"," ","u0915","u0947"," ","u0938","u093E","u0925"," ","u0921","u0949","u0915","u094D","u091F","u0930"," ","u0915","u093E"," ","u0928","u093E","u092E",","," ","u092F","u093E"," ","u201C","u090F","u091C","u0947","u0902","u091F","u201D","u0964">>
               ELSE <<"I"," ","c","a","n"," ","h","e","l","p"," ","w","i","t","h"," ","a","p","p","o","i","n","t","m","e","n","t","s"," ","a","t"," ">> \o HOSPITAL_NAME \o <<"."," ","S","a","y"," ","a"," ","d","e","p","a","r","t","m","e","n","t"," ","l","i","k","e"," ","c","a","r","d","i","o","l","o","g","y",","," ","o","r"," ","s","a","y"," ","D","r"," ","f","o","l","l","o","w","e","d"," ","b","y"," ","t","h","e"," ","d","o","c","t","o","r","u2019","s"," ","n","a","m","e",","," ","o","r"," ","s","a","y"," ","a","g","e","n","t",".">>
\* the text of a message
Render(m) == Text(m, DOCTORS[m.doctor], pickSlots(m.hi, DOCTORS[m.doctor]), doctorNames(m.dept))

\* ------------------------------------------------------------------------
\* Inputs and bounds
\* ------------------------------------------------------------------------
\* the call identifiers (CallSid) of the requests
Calls == {"CA1", "CA2"}
\* call identifiers are interchangeable: the first request is CA1's
Callers(n) == IF n = 0 THEN {"CA1"} ELSE Calls
\* requests served in one run
MaxRequests == 3
\* requests suspended in the completion API at one time
MaxInFlight == 2
\* requests of the one call of Dialogue
MaxTurns == 4
\* SpeechResult values the carrier may post
SpeechResults == <<
    <<>>,
    <<"m","y"," ","n","a","m","e"," ","i","s"," ","R","o","h","i","t"," ","N","a","r","w","a","l",","," ","p","h","o","n","e"," ","9","8","7","6","5","4","3","2","1","0">>,
    <<"D","r"," ","N","e","h","a"," ","S","h","a","r","m","a">>,
    <<"c","a","r","d","i","o","l","o","g","y">>,
    <<"I"," ","h","a","v","e"," ","h","e","a","r","t"," ","p","a","i","n">>,
    <<"h","i","n","d","i">>,
    <<"e","n","g","l","i","s","h"," ","p","l","e","a","s","e">>,
    <<"2">>,
    <<"n","a","m","e"," ","i","s"," ","A","m","i","t">>,
    <<"9","1","2","3","4","5","6","7","8","0">>,
    <<"R","o","h","i","t"," ","N","a","r","w","a","l">>,
    <<"b","o","o","k"," ","a","n"," ","a","p","p","o","i","n","t","m","e","n","t">>,
    <<"d","e","r","m","a","t","o","l","o","g","y"," ","t","o","m","o","r","r","o","w">>,
    <<"D","r"," ","G","u","p","t","a"," ","t","o","m","o","r","r","o","w">> >>
\* Spec draws the speech of a request from the first MaxSpeech of them
MaxSpeech == 7
\* values of Math.random().toString(16).slice(2, 8).toUpperCase()
FirstHex == {<<"1","A","2","B","3","C">>}
RandomHex == FirstHex \cup {<<"0","0","F","F","7","E">>}
\* values of the ?mode= query parameter of /welcome ("": absent)
QueryModes == {"education", ""}
\* process.env of one run: MODE, ENABLE_POLISH === "true", OPENAI_API_KEY and
\* HOSPITAL_AGENT_NUMBER set or not
Environments == {
    [MODE |-> "education", ENABLE_POLISH |-> FALSE, OPENAI_API_KEY |-> TRUE, AGENT_NUMBER |-> TRUE],
    [MODE |-> "hospital", ENABLE_POLISH |-> TRUE, OPENAI_API_KEY |-> TRUE, AGENT_NUMBER |-> FALSE],
    [MODE |-> "hospital", ENABLE_POLISH |-> TRUE, OPENAI_API_KEY |-> FALSE, AGENT_NUMBER |-> TRUE],
    [MODE |-> "hospital", ENABLE_POLISH |-> FALSE, OPENAI_API_KEY |-> TRUE, AGENT_NUMBER |-> TRUE] }
\* Dialogue runs where hospitalPolish returns its input at once
DialogueEnvironments == {e \in Environments : e.MODE = "hospital" /\ e.ENABLE_POLISH /\ ~e.OPENAI_API_KEY}

VARIABLES
    env,              \* process.env, fixed at start
    sessionStore,     \* callSid -> [mode, state, lang, data]
    callMetaStore,    \* callSid -> the mode/lang fields of the call's metadata
    recentCalls,      \* most recent first
    transcriptStore,  \* callSid -> the roles of the transcript items
    convoStore,       \* callSid -> the roles of the education history
    persisted,        \* transcripts.json: callSid -> [meta, transcript]
    pending,          \* handlers suspended in an outbound call
    served,           \* requests received so far
    request,          \* the request whose handler ran in the last step
    response          \* the last TwiML response sent

vars == <<env, sessionStore, callMetaStore, recentCalls, transcriptStore, convoStore, persisted, pending, served, request, response>>

\* the module-level stores as one value, threaded through the functions
Stores == [sessionStore |-> sessionStore, callMetaStore |-> callMetaStore, recentCalls |-> recentCalls,
           transcriptStore |-> transcriptStore, convoStore |-> convoStore, persisted |-> persisted]

\* ------------------------------------------------------------------------
\* What every extractor finds in each speech result, computed once
\* ------------------------------------------------------------------------
EndWords == <<<<"n","o">>, <<"b","y","e">>, <<"t","h","a","n","k","s">>, <<"t","h","a","n","k"," ","y","o","u">>, <<"t","h","a","t"," ","i","s"," ","a","l","l">>, <<"n","a","h","i">>, <<"n","a","h","i","n">>, <<"b","a","s">>, <<"t","h","e","e","k"," ","h","a","i">>, <<"o","k"," ","b","y","e">>>>

understand(speechResult) ==
    LET tRaw == trim(speechResult)
        norm == normalize(tRaw)
    IN  [ tRaw |-> tRaw,
          pref |-> detectLangPreference(tRaw),
          phone |-> extractPhone(tRaw),
          name |-> extractName(tRaw),
          escalate |-> wantsHuman(tRaw) \/ looksLikeMedicalAdvice(tRaw),
          dept |-> detectDept(tRaw),
          hasDr |-> hasDoctorRef(norm),
          time |-> extractPreferredTime(tRaw),
          booking |-> looksLikeBookingIntent(tRaw),
          drMatches |-> findDoctorByName(doctorQuery(tRaw)),
          num |-> parseInt(norm),
          nameMatches |-> findDoctorByName(tRaw),
          endWord |-> someIncluded(toLowerCase(tRaw), EndWords) ]

Understood == [u \in DOMAIN SpeechResults |-> understand(SpeechResults[u])] \o <<>>

doctorIndex(d) == CHOOSE i \in DOMAIN DOCTORS : DOCTORS[i] = d

\* ------------------------------------------------------------------------
\* Stores
\* ------------------------------------------------------------------------
has(f, k) == k \in DOMAIN f
\* s.data?.key read as a value: null when the key is missing
slot(data, k) == IF has(data, k) THEN data[k] ELSE null

RecentCap == 20
rememberCall(M, callSid, patch) ==
    LET prev == IF has(M.callMetaStore, callSid) THEN M.callMetaStore[callSid] ELSE <<>>
        next == patch @@ prev
        disk == IF has(M.persisted, callSid) THEN M.persisted[callSid] ELSE [meta |-> <<>>, transcript |-> <<>>]
        rest == SelectSeq(M.recentCalls, LAMBDA x : x /= callSid)
        recent == <<callSid>> \o rest
    IN  [M EXCEPT !.callMetaStore = (callSid :> next) @@ @,
                  !.persisted = (callSid :> [disk EXCEPT !.meta = next @@ @]) @@ @,
                  !.recentCalls = SubSeq(recent, 1, IF Len(recent) > RecentCap THEN RecentCap ELSE Len(recent))]

pushTranscript(M, callSid, role) ==
    LET arr == (IF has(M.transcriptStore, callSid) THEN M.transcriptStore[callSid] ELSE <<>>) \o <<role>>
        disk == IF has(M.persisted, callSid) THEN M.persisted[callSid] ELSE [meta |-> <<>>, transcript |-> <<>>]
    IN  [M EXCEPT !.transcriptStore = (callSid :> arr) @@ @,
                  !.persisted = (callSid :> [disk EXCEPT !.transcript = arr]) @@ @]

HistoryCap == 10
pushHistory(M, callSid, role) ==
    LET arr == (IF has(M.convoStore, callSid) THEN M.convoStore[callSid] ELSE <<>>) \o <<role>>
    IN  [M EXCEPT !.convoStore = (callSid :> (IF Len(arr) > HistoryCap THEN Tail(arr) ELSE arr)) @@ @]

\* the stores after getSession(callSid): a missing session is created
getSession(M, callSid) ==
    IF has(M.sessionStore, callSid) THEN M
    ELSE [M EXCEPT !.sessionStore = (callSid :> [mode |-> env.MODE, state |-> "NEW", lang |-> "null", data |-> <<>>]) @@ @]
\* the session getSession(callSid) returns
session(M, callSid) == getSession(M, callSid).sessionStore[callSid]

\* a setSession over one session record shared by all calls
setSessionShared(M, callSid, patch) ==
    LET s == session(M, callSid)
        next == [mode |-> IF has(patch, "mode") THEN patch.mode ELSE s.mode,
                 state |-> IF has(patch, "state") THEN patch.state ELSE s.state,
                 lang |-> IF has(patch, "lang") THEN patch.lang ELSE s.lang,
                 data |-> (IF has(patch, "data") THEN patch.data ELSE <<>>) @@ s.data]
    IN  rememberCall([getSession(M, callSid) EXCEPT !.sessionStore = [c \in DOMAIN @ \cup {callSid} |-> next]],
                     callSid, [mode |-> next.mode, lang |-> next.lang])

\* a setSession that spreads the patch only: data is replaced, not merged
setSessionShallow(M, callSid, patch) ==
    LET s == session(M, callSid)
        next == [mode |-> IF has(patch, "mode") THEN patch.mode ELSE s.mode,
                 state |-> IF has(patch, "state") THEN patch.state ELSE s.state,
                 lang |-> IF has(patch, "lang") THEN patch.lang ELSE s.lang,
                 data |-> IF has(patch, "data") THEN patch.data ELSE s.data]
    IN  rememberCall([getSession(M, callSid) EXCEPT !.sessionStore = (callSid :> next) @@ @],
                     callSid, [mode |-> next.mode, lang |-> next.lang])

\* { ...s, ...patch, data: { ...s.data, ...patch.data } }
setSession(M, callSid, patch) ==
    LET s == session(M, callSid)
        next == [mode |-> IF has(patch, "mode") THEN patch.mode ELSE s.mode,
                 state |-> IF has(patch, "state") THEN patch.state ELSE s.state,
                 lang |-> IF has(patch, "lang") THEN patch.lang ELSE s.lang,
                 data |-> (IF has(patch, "data") THEN patch.data ELSE <<>>) @@ s.data]
    IN  rememberCall([getSession(M, callSid) EXCEPT !.sessionStore = (callSid :> next) @@ @],
                     callSid, [mode |-> next.mode, lang |-> next.lang])

getSttLang(M, callSid) ==
    LET s == session(M, callSid)
    IN  IF s.mode = "hospital" THEN (IF s.lang = "null" THEN "en-IN" ELSE s.lang) ELSE "en-US"
isHi(M, callSid) == getSttLang(M, callSid) = "hi-IN"

\* ------------------------------------------------------------------------
\* Dialogue engine.  Each function gives what the code has done when it
\* reaches its first await: the stores, the message composed (say) and the
\* transfer flag.
\* ------------------------------------------------------------------------
\* a capture that takes whatever the text gives, held or not
capturedAlways(data, X) ==
    (IF truthy(X.phone) THEN "phone" :> X.phone ELSE <<>>) @@ (IF truthy(X.name) THEN "patientName" :> X.name ELSE <<>>)
\* the slots captureNamePhone fills: only those found in the text and still
\* empty in the session
captured(data, X) ==
    (IF truthy(X.phone) /\ ~truthy(slot(data, "phone")) THEN "phone" :> X.phone ELSE <<>>)
    @@ (IF truthy(X.name) /\ ~truthy(slot(data, "patientName")) THEN "patientName" :> X.name ELSE <<>>)
patched(M, callSid, patch) == IF DOMAIN patch /= {} THEN setSession(M, callSid, [data |-> patch]) ELSE getSession(M, callSid)
captureNamePhone(M, callSid, X) == patched(M, callSid, captured(session(M, callSid).data, X))

\* the confirmation read back: the four slots as they were at the call, the
\* time and the id just chosen
confirmed(M1, callSid, data, preferredTime, confirmationId) ==
    [ M |-> M1,
      say |-> [Prompt("confirmation", isHi(M1, callSid)) EXCEPT !.booking =
                 [patientName |-> slot(data, "patientName"), phone |-> slot(data, "phone"),
                  doctorName |-> slot(data, "doctorName"), dept |-> slot(data, "dept"),
                  preferredTime |-> preferredTime, confirmationId |-> confirmationId]],
      transfer |-> FALSE ]
\* a buildConfirmation that speaks an id it does not store
confirmWithoutId(M, callSid, data, preferredTime, confirmationId) ==
    confirmed(setSession(M, callSid, [state |-> "CONFIRMED", data |-> [preferredTime |-> preferredTime]]),
              callSid, data, preferredTime, confirmationId)
\* a buildConfirmation that stores the id but not the time it reads back
confirmWithoutTime(M, callSid, data, preferredTime, confirmationId) ==
    confirmed(setSession(M, callSid, [state |-> "CONFIRMED", data |-> [confirmationId |-> confirmationId]]),
              callSid, data, preferredTime, confirmationId)
confirm(M, callSid, data, preferredTime, confirmationId) ==
    confirmed(setSession(M, callSid, [state |-> "CONFIRMED",
                                      data |-> [preferredTime |-> preferredTime, confirmationId |-> confirmationId]]),
              callSid, data, preferredTime, confirmationId)
buildConfirmation(M, callSid, preferredTimeOverride, hex) ==
    confirm(M, callSid, session(M, callSid).data,
            trim(IF truthy(preferredTimeOverride) THEN preferredTimeOverride
                 ELSE IF truthy(slot(session(M, callSid).data, "preferredTime")) THEN session(M, callSid).data.preferredTime
                 ELSE <<>>),
            <<"A","P","T","-">> \o hex)

\* a fixed prompt in the call's language, nothing written
ask(M, callSid, kind) == [M |-> M, say |-> Prompt(kind, isHi(M, callSid)), transfer |-> FALSE]

\* one doctor chosen: COLLECT_NAME with doctorName and dept set
booked(M1, callSid, d, kind) == [M |-> M1, say |-> DoctorPrompt(kind, isHi(M1, callSid), doctorIndex(d)), transfer |-> FALSE]
\* a booking start that moves to COLLECT_NAME without storing the doctor
bookDoctorUnnamed(M, callSid, d, kind) ==
    booked(setSession(M, callSid, [state |-> "COLLECT_NAME"]), callSid, d, kind)
bookDoctor(M, callSid, d, kind) ==
    booked(setSession(M, callSid, [state |-> "COLLECT_NAME", data |-> [doctorName |-> d.name, dept |-> d.dept]]), callSid, d, kind)

\* session.state === "COLLECT_NAME"
\* COLLECT_NAME without the skip: the phone is asked for whenever the name is there
nameCollectedNoSkip(M, callSid, s2, time, hex) ==
    IF ~truthy(slot(s2.data, "patientName")) THEN ask(M, callSid, "askName")
    ELSE ask(setSession(M, callSid, [state |-> "COLLECT_PHONE"]), callSid, "askPhone")
\* COLLECT_NAME that moves on whether or not a name is stored
nameCollectedUnchecked(M, callSid, s2, time, hex) ==
    IF truthy(slot(s2.data, "patientName")) /\ truthy(slot(s2.data, "phone"))
    THEN (IF truthy(time) THEN buildConfirmation(M, callSid, time, hex)
          ELSE ask(setSession(M, callSid, [state |-> "COLLECT_TIME"]), callSid, "askTimeBrief"))
    ELSE ask(setSession(M, callSid, [state |-> "COLLECT_PHONE"]), callSid, "askPhone")
nameCollected(M, callSid, s2, time, hex) ==
    IF truthy(slot(s2.data, "patientName")) /\ truthy(slot(s2.data, "phone"))
    THEN (IF truthy(time) THEN buildConfirmation(M, callSid, time, hex)
          ELSE ask(setSession(M, callSid, [state |-> "COLLECT_TIME"]), callSid, "askTimeBrief"))
    ELSE IF ~truthy(slot(s2.data, "patientName")) THEN ask(M, callSid, "askName")
    ELSE ask(setSession(M, callSid, [state |-> "COLLECT_PHONE"]), callSid, "askPhone")
collectName(M, callSid, X, hex) ==
    nameCollected(M, callSid, session(M, callSid),
                  IF truthy(slot(session(M, callSid).data, "preferredTime")) THEN session(M, callSid).data.preferredTime
                  ELSE IF truthy(X.time) THEN X.time
                  ELSE <<>>,
                  hex)

\* session.state === "COLLECT_PHONE"
\* COLLECT_PHONE that asks for the time whether or not one is stored
phoneCollectedAskingTime(M, callSid, data, alreadyTime, hex) ==
    IF ~truthy(slot(data, "phone")) THEN ask(M, callSid, "reaskPhone")
    ELSE ask(setSession(M, callSid, [state |-> "COLLECT_TIME"]), callSid, "askTime")
phoneCollected(M, callSid, data, alreadyTime, hex) ==
    IF ~truthy(slot(data, "phone")) THEN ask(M, callSid, "reaskPhone")
    ELSE IF truthy(alreadyTime) THEN buildConfirmation(M, callSid, alreadyTime, hex)
    ELSE ask(setSession(M, callSid, [state |-> "COLLECT_TIME"]), callSid, "askTime")
collectPhone(M, callSid, hex) ==
    phoneCollected(M, callSid, session(M, callSid).data,
                   trim(IF truthy(slot(session(M, callSid).data, "preferredTime")) THEN session(M, callSid).data.preferredTime ELSE <<>>),
                   hex)

\* session.state === "COLLECT_TIME"
timeCollected(M, callSid, time, hex) == buildConfirmation(setSession(M, callSid, [data |-> [preferredTime |-> time]]), callSid, time, hex)
\* COLLECT_TIME that takes the whole utterance as the time
collectTimeVerbatim(M, callSid, X, hex) == timeCollected(M, callSid, X.tRaw, hex)
collectTime(M, callSid, X, hex) == timeCollected(M, callSid, IF truthy(X.time) THEN X.time ELSE X.tRaw, hex)

\* a department named: its first doctors are listed, if it has any
deptListed(M1, callSid, dept) == [M |-> M1, say |-> DeptPrompt("listDoctors", isHi(M1, callSid), dept), transfer |-> FALSE]
\* a department routing that stores the department whether or not it has doctors
listDeptAlways(M, callSid, dept, docs) ==
    IF Len(docs) = 0
    THEN [M |-> setSession(M, callSid, [state |-> "ASK_BOOK_OR_LIST_MORE", data |-> [dept |-> dept]]),
          say |-> DeptPrompt("noDoctorsListed", isHi(M, callSid), dept), transfer |-> FALSE]
    ELSE deptListed(setSession(M, callSid, [state |-> "ASK_BOOK_OR_LIST_MORE", data |-> [dept |-> dept]]), callSid, dept)
listDept(M, callSid, dept, docs) ==
    IF Len(docs) = 0
    THEN [M |-> M, say |-> DeptPrompt("noDoctorsListed", isHi(M, callSid), dept), transfer |-> FALSE]
    ELSE deptListed(setSession(M, callSid, [state |-> "ASK_BOOK_OR_LIST_MORE", data |-> [dept |-> dept]]), callSid, dept)

\* ASK_BOOK_OR_LIST_MORE: a number into the doctors of the department the
\* session had when the turn began, or a doctor's name
chooseDoctor(M, callSid, X, docs) ==
    IF X.num[1] /\ X.num[2] >= 1 /\ X.num[2] <= Len(docs) THEN bookDoctor(M, callSid, docs[X.num[2]], "doctorChosen")
    ELSE IF Len(X.nameMatches) = 1 THEN bookDoctor(M, callSid, X.nameMatches[1], "doctorChosen")
    ELSE ask(M, callSid, "chooseDoctor")

\* a routing that waits for a department once a doctor was not found
routingAwaitingDept(M, callSid, X, session0) ==
    IF X.hasDr
    THEN (IF Len(X.drMatches) = 1 THEN bookDoctor(M, callSid, X.drMatches[1], "doctorResolved")
          ELSE ask(setSession(M, callSid, [state |-> "ASK_BOOK_OR_LIST_MORE"]), callSid, "doctorNotFound"))
    ELSE IF truthy(X.dept) THEN listDept(M, callSid, X.dept, listDoctorsByDept(X.dept, <<"G","u","r","g","a","o","n">>))
    ELSE IF session0.state = "ASK_BOOK_OR_LIST_MORE"
    THEN chooseDoctor(M, callSid, X,
                      IF truthy(slot(session0.data, "dept")) THEN listDoctorsByDept(session0.data.dept, <<"G","u","r","g","a","o","n">>) ELSE <<>>)
    ELSE ask(M, callSid, "fallback")
\* the routing logic after the state checks; session0 is the object read when
\* the turn began
routing(M, callSid, X, session0) ==
    IF X.hasDr
    THEN (IF Len(X.drMatches) = 1 THEN bookDoctor(M, callSid, X.drMatches[1], "doctorResolved")
          ELSE ask(M, callSid, "doctorNotFound"))
    ELSE IF truthy(X.dept) THEN listDept(M, callSid, X.dept, listDoctorsByDept(X.dept, <<"G","u","r","g","a","o","n">>))
    ELSE IF session0.state = "ASK_BOOK_OR_LIST_MORE"
    THEN chooseDoctor(M, callSid, X,
                      IF truthy(slot(session0.data, "dept")) THEN listDoctorsByDept(session0.data.dept, <<"G","u","r","g","a","o","n">>) ELSE <<>>)
    ELSE ask(M, callSid, "fallback")

\* a language lock that falls back to English when no preference is heard
lockLangOrEnglish(M, callSid, X) == setSession(M, callSid, [lang |-> IF X.pref /= "null" THEN X.pref ELSE "en-IN"])
\* lock Hindi if user uses Devanagari or says Hindi
lockLang(M, callSid, X) == IF X.pref /= "null" THEN setSession(M, callSid, [lang |-> X.pref]) ELSE M

\* NEW: a time said early is stored
earlyTime(M, callSid, X, session0) ==
    IF session0.state = "NEW" /\ truthy(X.time) /\ ~truthy(slot(session0.data, "preferredTime"))
    THEN setSession(M, callSid, [data |-> [preferredTime |-> X.time]])
    ELSE M

\* the state machine; M holds the writes made so far in the turn
stateMachine(M, callSid, X, session0, hex) ==
    IF session0.state = "NEW" /\ ~truthy(X.dept) /\ ~X.hasDr
    THEN ask(M, callSid, IF X.booking THEN "askDepartment" ELSE "routeBack")
    ELSE IF session0.state = "COLLECT_NAME" THEN collectName(M, callSid, X, hex)
    ELSE IF session0.state = "COLLECT_PHONE" THEN collectPhone(M, callSid, hex)
    ELSE IF session0.state = "COLLECT_TIME" THEN collectTime(M, callSid, X, hex)
    ELSE routing(M, callSid, X, session0)

\* an escalation that speaks the handoff but leaves transfer false
escalationWithoutTransfer(M, callSid, X, session0, hex) ==
    IF X.escalate THEN ask(M, callSid, "handoff")
    ELSE stateMachine(earlyTime(M, callSid, X, session0), callSid, X, session0, hex)

\* the escalation check made after the state machine has run
escalationLast(M, callSid, X, session0, hex) ==
    IF X.escalate
    THEN [stateMachine(earlyTime(M, callSid, X, session0), callSid, X, session0, hex)
            EXCEPT !.say = Prompt("handoff", isHi(M, callSid)), !.transfer = TRUE]
    ELSE stateMachine(earlyTime(M, callSid, X, session0), callSid, X, session0, hex)

\* escalation comes before the state machine, after the capture
escalation(M, callSid, X, session0, hex) ==
    IF X.escalate THEN [M |-> M, say |-> Prompt("handoff", isHi(M, callSid)), transfer |-> TRUE]
    ELSE stateMachine(earlyTime(M, callSid, X, session0), callSid, X, session0, hex)

\* an engine that checks for an escalation before it captures name and phone
getAIAnswerHospitalEscalatingFirst(M, callSid, X, hex) ==
    IF X.escalate
    THEN escalation(lockLang(pushTranscript(getSession(M, callSid), callSid, "user"), callSid, X),
                    callSid, X, session(M, callSid), hex)
    ELSE escalation(captureNamePhone(lockLang(pushTranscript(getSession(M, callSid), callSid, "user"), callSid, X), callSid, X),
                    callSid, X, session(M, callSid), hex)

\* session0 is the session object read at the top: later writes do not show
\* in it
getAIAnswerHospital(M, callSid, X, hex) ==
    escalation(captureNamePhone(lockLang(pushTranscript(getSession(M, callSid), callSid, "user"), callSid, X), callSid, X),
               callSid, X, session(M, callSid), hex)

\* ------------------------------------------------------------------------
\* polish (optional)
\* ------------------------------------------------------------------------
SkipWords == <<<<"f","u","l","l"," ","n","a","m","e">>, <<"m","o","b","i","l","e">>, <<"1","0","-","d","i","g","i","t">>, <<"p","h","o","n","e">>, <<"p","a","t","i","e","n","t">>, <<"u0915","u0943","u092A","u092F","u093E">>, <<"u092E","u094B","u092C","u093E","u0907","u0932">>, <<"u0905","u0902","u0915","u094B","u0902">>>>
\* safety: do not polish critical collection prompts
skipsPolish(text) == someIncluded(toLowerCase(text), SkipWords)

\* the verdict for every message without caller data in it, computed once
StaticMessages ==
    {Prompt(k, h) : k \in {"handoff", "askDepartment", "routeBack", "askTimeBrief", "askName", "askPhone",
                           "reaskPhone", "askTime", "doctorNotFound", "chooseDoctor", "fallback"},
                    h \in BOOLEAN}
    \cup {DoctorPrompt(k, h, d) : k \in {"doctorResolved", "doctorChosen"}, h \in BOOLEAN, d \in DOMAIN DOCTORS}
    \cup {DeptPrompt(k, h, DEPARTMENTS[i]) : k \in {"noDoctorsListed", "listDoctors"}, h \in BOOLEAN, i \in DOMAIN DEPARTMENTS}
StaticSkips == [m \in StaticMessages |-> skipsPolish(Render(m))] @@ <<>>

\* hospitalPolish sends raw to the paraphrasing collaborator (and suspends)
\* unless it returns raw at once
callsPolish(raw) ==
    /\ env.ENABLE_POLISH
    /\ env.OPENAI_API_KEY
    /\ ~(IF raw.booking = <<>> THEN StaticSkips[raw] ELSE skipsPolish(Render(raw)))

\* a polish that passes on whatever the completion holds, also when it is empty
hospitalPolishUnguarded(raw, outcome) == IF outcome \in {"reworded", "empty"} THEN [raw EXCEPT !.reworded = TRUE] ELSE raw
\* out || raw, and raw when the call throws
hospitalPolish(raw, outcome) == IF outcome = "reworded" THEN [raw EXCEPT !.reworded = TRUE] ELSE raw

\* ------------------------------------------------------------------------
\* Twilio routes
\* ------------------------------------------------------------------------
NoRequest == [id |-> 0, route |-> "none", call |-> "none", speech |-> 0, phase |-> "none"]
NoResponse == [id |-> 0, route |-> "none", call |-> "none", lang |-> "null", prompts |-> <<>>, twiml |-> <<>>]

Commit(M) ==
    /\ sessionStore' = M.sessionStore
    /\ callMetaStore' = M.callMetaStore
    /\ recentCalls' = M.recentCalls
    /\ transcriptStore' = M.transcriptStore
    /\ convoStore' = M.convoStore
    /\ persisted' = M.persisted

\* a message of the handlers themselves, in the language of the gather
Notice(kind, sttLang) == Prompt(kind, sttLang = "hi-IN")

\* a reply that dials on every transfer, whether or not a number is configured
replyDialing(id, route, callSid, sttLang, mode, say, transfer) ==
    [ id |-> id, route |-> route, call |-> callSid, lang |-> sttLang,
      prompts |-> IF transfer THEN <<say>>
                  ELSE <<say, IF mode = "education" THEN Notice("askAnother", "en-US") ELSE Notice("anythingElse", sttLang)>>,
      twiml |-> IF transfer THEN <<"Play", "Dial">> ELSE <<"Play", "Gather">> ]
\* the TwiML after getAIAnswer resolved: play the answer, then dial or give
\* up on a transfer, else gather again
reply(id, route, callSid, sttLang, mode, say, transfer) ==
    [ id |-> id, route |-> route, call |-> callSid, lang |-> sttLang,
      prompts |-> IF transfer
                  THEN (IF env.AGENT_NUMBER THEN <<say>> ELSE <<say, Notice("transferUnavailable", sttLang)>>)
                  ELSE <<say, IF mode = "education" THEN Notice("askAnother", "en-US") ELSE Notice("anythingElse", sttLang)>>,
      twiml |-> IF transfer
                THEN (IF env.AGENT_NUMBER THEN <<"Play", "Dial">> ELSE <<"Play", "Play", "Hangup">>)
                ELSE <<"Play", "Gather">> ]

\* a catch block that asks the caller to repeat instead of ending the call
failureRegathering(id, route, callSid, M) ==
    [ id |-> id, route |-> route, call |-> callSid, lang |-> getSttLang(M, callSid),
      prompts |-> <<Notice("sayAgain", getSttLang(M, callSid))>>, twiml |-> <<"Gather">> ]
\* the catch block: the apology and a hangup
failure(id, route, callSid, M) ==
    [ id |-> id, route |-> route, call |-> callSid, lang |-> getSttLang(M, callSid),
      prompts |-> <<Notice("technicalIssue", getSttLang(M, callSid))>>, twiml |-> <<"Play", "Hangup">> ]

\* /handle-input reads the language and the mode after the answer,
\* /handle-followup before it (kept with the suspended handler)
finish(p, M, say) ==
    reply(p.id, p.route, p.call,
          IF p.route = "/handle-input" THEN getSttLang(M, p.call) ELSE p.sttLang,
          IF p.route = "/handle-input" THEN session(M, p.call).mode ELSE p.mode,
          say, p.transfer)

\* the handler suspended in an outbound call, with what it holds in locals
suspended(M, id, route, callSid, u, waits, say, transfer) ==
    [ id |-> id, route |-> route, call |-> callSid, speech |-> u, waits |-> waits, say |-> say, transfer |-> transfer,
      sttLang |-> getSttLang(M, callSid), mode |-> session(M, callSid).mode ]

suspend(M, p) == Commit(M) /\ pending' = pending \cup {p} /\ response' = response
complete(M, p, say) == Commit(M) /\ response' = finish(p, M, say) /\ pending' = pending

\* getAIAnswerHospital from its hospitalPolish call on: R is what the engine
\* did before it
polished(R, p) ==
    IF callsPolish(R.say) THEN suspend(R.M, p) ELSE complete(pushTranscript(R.M, p.call, "assistant"), p, R.say)
hospitalAnswer(M, id, route, callSid, u, R) == polished(R, suspended(M, id, route, callSid, u, "polish", R.say, R.transfer))

\* getAIAnswerEducation up to its completion request
educationAnswer(M, id, route, callSid, u) ==
    suspend(getSession(M, callSid), suspended(M, id, route, callSid, u, "completion", Prompt("answer", FALSE), FALSE))

\* await getAIAnswer(callSid, speech) from a handler: the hospital engine runs
\* to its hospitalPolish call and, when that returns at once, to the end;
\* otherwise, and in education mode, the handler is suspended in the request
\* to the completion API
answer(M, id, route, callSid, u, X, hex) ==
    IF session(M, callSid).mode = "hospital"
    THEN hospitalAnswer(M, id, route, callSid, u, getAIAnswerHospital(M, callSid, X, hex))
    ELSE educationAnswer(M, id, route, callSid, u)

Welcome(callSid, modeFromQuery) ==
    LET mode == IF modeFromQuery \in {"hospital", "education"} THEN modeFromQuery ELSE env.MODE
        M1 == rememberCall(Stores, callSid, [mode |-> mode])
        M2 == setSession(M1, callSid, [mode |-> mode, state |-> "NEW",
                                       lang |-> IF mode = "hospital" THEN "en-IN" ELSE "null", data |-> <<>>])
    IN  /\ served' = served + 1
        /\ request' = [id |-> served + 1, route |-> "/welcome", call |-> callSid, speech |-> 0, phase |-> "start"]
        /\ Commit(M2)
        /\ response' = [ id |-> served + 1, route |-> "/welcome", call |-> callSid, lang |-> getSttLang(M2, callSid),
                         prompts |-> <<Notice("greeting", "en-US")>>, twiml |-> <<"Gather">> ]
        /\ UNCHANGED <<env, pending>>

\* a handler's answer that needs no engine: one notice, then gather or hang up
notice(M, id, route, callSid, kind, twiml) ==
    /\ Commit(M)
    /\ response' = [ id |-> id, route |-> route, call |-> callSid, lang |-> getSttLang(M, callSid),
                     prompts |-> <<Notice(kind, getSttLang(M, callSid))>>, twiml |-> twiml ]
    /\ pending' = pending

HandleInput(callSid, u, X, hex) ==
    /\ served' = served + 1
    /\ request' = [id |-> served + 1, route |-> "/handle-input", call |-> callSid, speech |-> u, phase |-> "start"]
    /\ IF X.tRaw = <<>>
       THEN notice(getSession(Stores, callSid), served + 1, "/handle-input", callSid, "didNotCatch", <<"Gather">>)
       ELSE answer(lockLang(Stores, callSid, X), served + 1, "/handle-input", callSid, u, X, hex)
    /\ UNCHANGED env

\* a follow-up handler that hands silence to getAIAnswer like any utterance
followupAnsweringSilence(M, id, callSid, u, X, hex) ==
    IF X.tRaw /= <<>> /\ X.endWord THEN notice(M, id, "/handle-followup", callSid, "goodbye", <<"Play", "Hangup">>)
    ELSE answer(M, id, "/handle-followup", callSid, u, X, hex)
\* M: the stores once the language preference is applied and the session read
followup(M, id, callSid, u, X, hex) ==
    IF X.tRaw = <<>> THEN notice(M, id, "/handle-followup", callSid, "sayAgain", <<"Gather">>)
    ELSE IF X.endWord THEN notice(M, id, "/handle-followup", callSid, "goodbye", <<"Play", "Hangup">>)
    ELSE answer(M, id, "/handle-followup", callSid, u, X, hex)

HandleFollowup(callSid, u, X, hex) ==
    /\ served' = served + 1
    /\ request' = [id |-> served + 1, route |-> "/handle-followup", call |-> callSid, speech |-> u, phase |-> "start"]
    /\ followup(getSession(lockLang(Stores, callSid, X), callSid), served + 1, callSid, u, X, hex)
    /\ UNCHANGED env

\* a resumed handler that stores the language it read before it suspended
PolishReturnsStoring(p, outcome) ==
    LET M == setSession(pushTranscript(Stores, p.call, "assistant"), p.call, [lang |-> p.sttLang])
    IN  /\ p \in pending /\ p.waits = "polish"
        /\ pending' = pending \ {p}
        /\ request' = [id |-> p.id, route |-> p.route, call |-> p.call, speech |-> p.speech, phase |-> "resume"]
        /\ Commit(M)
        /\ response' = finish(p, M, hospitalPolish(p.say, outcome))
        /\ UNCHANGED <<env, served>>
\* hospitalPolish resumes: the completion API answered (other words, or
\* nothing) or failed; the assistant line is written and the TwiML sent
PolishReturns(p, outcome) ==
    LET M == pushTranscript(Stores, p.call, "assistant")
    IN  /\ p \in pending /\ p.waits = "polish"
        /\ pending' = pending \ {p}
        /\ request' = [id |-> p.id, route |-> p.route, call |-> p.call, speech |-> p.speech, phase |-> "resume"]
        /\ Commit(M)
        /\ response' = finish(p, M, hospitalPolish(p.say, outcome))
        /\ UNCHANGED <<env, served>>

\* getAIAnswerEducation resumes with an answer: history and transcript are
\* written and the TwiML sent
CompletionReturns(p) ==
    LET M == pushTranscript(pushTranscript(pushHistory(pushHistory(Stores, p.call, "user"), p.call, "assistant"),
                                           p.call, "user"), p.call, "assistant")
    IN  /\ p \in pending /\ p.waits = "completion"
        /\ env.OPENAI_API_KEY
        /\ pending' = pending \ {p}
        /\ request' = [id |-> p.id, route |-> p.route, call |-> p.call, speech |-> p.speech, phase |-> "resume"]
        /\ Commit(M)
        /\ response' = finish(p, M, p.say)
        /\ UNCHANGED <<env, served>>

\* the completion request of getAIAnswerEducation rejects: the handler's
\* catch block answers
CompletionFails(p) ==
    /\ p \in pending /\ p.waits = "completion"
    /\ pending' = pending \ {p}
    /\ request' = [id |-> p.id, route |-> p.route, call |-> p.call, speech |-> p.speech, phase |-> "resume"]
    /\ response' = failure(p.id, p.route, p.call, Stores)
    /\ UNCHANGED <<env, served, sessionStore, callMetaStore, recentCalls, transcriptStore, convoStore, persisted>>

Init ==
    /\ env \in Environments
    /\ sessionStore = <<>>
    /\ callMetaStore = <<>>
    /\ recentCalls = <<>>
    /\ transcriptStore = <<>>
    /\ convoStore = <<>>
    /\ persisted = <<>>
    /\ pending = {}
    /\ served = 0
    /\ request = NoRequest
    /\ response = NoResponse

\* requests of several calls arrive in any order, also while earlier ones are
\* suspended in an outbound call
Next ==
    \/ \E callSid \in Callers(served), modeFromQuery \in QueryModes :
          served < MaxRequests /\ Welcome(callSid, modeFromQuery)
    \/ \E callSid \in Callers(served), u \in 1..MaxSpeech, hex \in FirstHex :
          served < MaxRequests /\ Cardinality(pending) < MaxInFlight /\ HandleInput(callSid, u, Understood[u], hex)
    \/ \E callSid \in Callers(served), u \in 1..MaxSpeech, hex \in FirstHex :
          served < MaxRequests /\ Cardinality(pending) < MaxInFlight /\ HandleFollowup(callSid, u, Understood[u], hex)
    \/ \E p \in pending, outcome \in {"reworded", "empty", "throws"} : PolishReturns(p, outcome)
    \/ \E p \in pending : CompletionReturns(p)
    \/ \E p \in pending : CompletionFails(p)

Spec == Init /\ [][Next]_vars

\* one hospital call whose carrier posts the next request when the previous
\* one is answered; no paraphrasing, so every handler runs to its end
DialogueInit == Init /\ env \in DialogueEnvironments
DialogueNext ==
    \/ served < MaxTurns /\ pending = {} /\ Welcome("CA1", "")
    \/ \E u \in DOMAIN SpeechResults, hex \in RandomHex :
          served < MaxTurns /\ pending = {} /\ HandleInput("CA1", u, Understood[u], hex)
    \/ \E u \in DOMAIN SpeechResults, hex \in RandomHex :
          served < MaxTurns /\ pending = {} /\ HandleFollowup("CA1", u, Understood[u], hex)

Dialogue == DialogueInit /\ [][DialogueNext]_vars

\* one hospital call as in Dialogue, where polishing is enabled and
\* configured: a handler may be suspended in the paraphrasing call, and the
\* carrier posts the next request when the previous one is answered
PolishedEnvironments == {e \in Environments : e.MODE = "hospital" /\ e.ENABLE_POLISH /\ e.OPENAI_API_KEY}
PolishedInit == Init /\ env \in PolishedEnvironments
PolishedNext ==
    \/ served < MaxTurns /\ pending = {} /\ Welcome("CA1", "")
    \/ \E u \in DOMAIN SpeechResults, hex \in RandomHex :
          served < MaxTurns /\ pending = {} /\ HandleInput("CA1", u, Understood[u], hex)
    \/ \E u \in DOMAIN SpeechResults, hex \in RandomHex :
          served < MaxTurns /\ pending = {} /\ HandleFollowup("CA1", u, Understood[u], hex)
    \/ \E p \in pending, outcome \in {"reworded", "empty", "throws"} : PolishReturns(p, outcome)

Polished == PolishedInit /\ [][PolishedNext]_vars

\* ------------------------------------------------------------------------
\* src/server.js, latest snapshot: the same stores without transcripts.json,
\* an earlier dialogue engine, and handlers that redirect to /welcome on
\* silence
\* ------------------------------------------------------------------------
serverJs_rememberCall(M, callSid, patch) == [rememberCall(M, callSid, patch) EXCEPT !.persisted = M.persisted]
serverJs_pushTranscript(M, callSid, role) == [pushTranscript(M, callSid, role) EXCEPT !.persisted = M.persisted]
serverJs_setSession(M, callSid, patch) == [setSession(M, callSid, patch) EXCEPT !.persisted = M.persisted]

serverJs_RiskyWords == <<<<"f","e","v","e","r">>, <<"p","a","i","n">>, <<"c","h","e","s","t"," ","p","a","i","n">>, <<"b","r","e","a","t","h">>, <<"b","p">>, <<"b","l","o","o","d"," ","p","r","e","s","s","u","r","e">>, <<"d","i","a","g","n","o","s","e">>, <<"d","i","a","g","n","o","s","i","s">>, <<"t","r","e","a","t","m","e","n","t">>, <<"m","e","d","i","c","i","n","e">>, <<"t","a","b","l","e","t">>, <<"d","o","s","e">>, <<"e","m","e","r","g","e","n","c","y">>, <<"v","o","m","i","t">>, <<"b","l","e","e","d","i","n","g">>, <<"p","r","e","g","n","a","n","t">>, <<"p","r","e","g","n","a","n","c","y">>, <<"h","e","a","r","t"," ","a","t","t","a","c","k">>, <<"s","t","r","o","k","e">>, <<"b","u","k","h","a","r">>, <<"d","a","r","d">>, <<"s","a","a","n","s">>, <<"d","a","b","a","v">>, <<"b","l","o","o","d">>, <<"d","a","w","a","i">>, <<"e","m","e","r","g","e","n","c","y">>>>
serverJs_looksLikeMedicalAdvice(text) == someIncluded(normalize(text), serverJs_RiskyWords)

serverJs_DeptAliases == <<
    [k |-> <<<<"c","a","r","d","i","o">>, <<"c","a","r","d","i","o","l","o","g","y">>, <<"h","e","a","r","t">>>>, v |-> <<"C","a","r","d","i","o","l","o","g","y">>],
    [k |-> <<<<"o","r","t","h","o">>, <<"o","r","t","h","o","p","e","d","i","c">>, <<"o","r","t","h","o","p","e","d","i","c","s">>, <<"b","o","n","e","s">>, <<"b","o","n","e">>>>, v |-> <<"O","r","t","h","o","p","e","d","i","c","s">>],
    [k |-> <<<<"e","n","t">>, <<"e","a","r">>, <<"n","o","s","e">>, <<"t","h","r","o","a","t">>>>, v |-> <<"E","N","T">>],
    [k |-> <<<<"n","e","u","r","o">>, <<"n","e","u","r","o","l","o","g","y">>, <<"b","r","a","i","n">>>>, v |-> <<"N","e","u","r","o","l","o","g","y">>],
    [k |-> <<<<"o","n","c","o">>, <<"o","n","c","o","l","o","g","y">>, <<"c","a","n","c","e","r">>>>, v |-> <<"O","n","c","o","l","o","g","y">>],
    [k |-> <<<<"d","e","r","m","a">>, <<"d","e","r","m","a","t","o","l","o","g","y">>, <<"s","k","i","n">>>>, v |-> <<"D","e","r","m","a","t","o","l","o","g","y">>],
    [k |-> <<<<"g","a","s","t","r","o">>, <<"g","a","s","t","r","o","e","n","t","e","r","o","l","o","g","y">>, <<"s","t","o","m","a","c","h">>>>, v |-> <<"G","a","s","t","r","o","e","n","t","e","r","o","l","o","g","y">>] >>
serverJs_detectDept(text) ==
    LET tNorm == normalize(text)
        hit == {i \in DOMAIN serverJs_DeptAliases : someIncluded(tNorm, serverJs_DeptAliases[i].k)}
        direct == {i \in DOMAIN DEPARTMENTS : includes(tNorm, normalize(DEPARTMENTS[i]))}
    IN  IF hit /= {} THEN serverJs_DeptAliases[SetMin(hit)].v
        ELSE IF direct /= {} THEN DEPARTMENTS[SetMin(direct)]
        ELSE null

\* what the snapshot's extractors find in a speech result
serverJs_understand(speechResult) ==
    LET tRaw == trim(speechResult)
    IN  [ tRaw |-> tRaw,
          pref |-> detectLangPreference(tRaw),
          phone |-> extractPhone(tRaw),
          escalate |-> wantsHuman(tRaw) \/ serverJs_looksLikeMedicalAdvice(tRaw),
          dept |-> serverJs_detectDept(tRaw),
          hasDr |-> hasDoctorRef(normalize(tRaw)),
          drMatches |-> findDoctorByName(doctorQuery(tRaw)),
          nameMatches |-> findDoctorByName(tRaw),
          endWord |-> someIncluded(toLowerCase(tRaw), EndWords) ]
serverJs_Understood == [u \in DOMAIN SpeechResults |-> serverJs_understand(SpeechResults[u])] \o <<>>

\* a fixed reply (the snapshot speaks English only), nothing written
serverJs_ask(M, callSid, kind) == [M |-> M, say |-> Prompt(kind, FALSE), transfer |-> FALSE]
\* one doctor matched: COLLECT_NAME with the doctor's fields stored
serverJs_book(M, callSid, d, kind) ==
    [ M |-> serverJs_setSession(M, callSid, [state |-> "COLLECT_NAME",
                                             data |-> [doctorId |-> d.id, doctorName |-> d.name,
                                                       dept |-> d.dept, location |-> d.location]]),
      say |-> DoctorPrompt(kind, FALSE, doctorIndex(d)), transfer |-> FALSE ]
\* session.state === "COLLECT_TIME": the utterance is the time; the message
\* reads the slots of the session object read when the turn began
serverJs_confirm(M, callSid, X, session0, hex) ==
    [ M |-> serverJs_setSession(M, callSid, [state |-> "CONFIRMED",
                                             data |-> [preferredTime |-> X.tRaw, confirmationId |-> <<"A","P","T","-">> \o hex]]),
      say |-> [Prompt("confirmation", FALSE) EXCEPT !.booking =
                 [patientName |-> slot(session0.data, "patientName"), phone |-> slot(session0.data, "phone"),
                  doctorName |-> slot(session0.data, "doctorName"), dept |-> slot(session0.data, "dept"),
                  preferredTime |-> X.tRaw, confirmationId |-> <<"A","P","T","-">> \o hex]],
      transfer |-> FALSE ]
serverJs_listDept(M, callSid, dept, docs) ==
    IF Len(docs) = 0 THEN [M |-> M, say |-> DeptPrompt("noDoctorsListed", FALSE, dept), transfer |-> FALSE]
    ELSE [ M |-> serverJs_setSession(M, callSid, [state |-> "ASK_BOOK_OR_LIST_MORE", data |-> [dept |-> dept]]),
           say |-> DeptPrompt("listDoctors", FALSE, dept), transfer |-> FALSE ]
\* the branches of getAIAnswerHospital after the escalation check, in order
serverJs_stateMachine(M, callSid, X, session0, hex) ==
    IF session0.state = "COLLECT_NAME"
    THEN serverJs_ask(serverJs_setSession(M, callSid, [state |-> "COLLECT_PHONE", data |-> [patientName |-> X.tRaw]]),
                      callSid, "askPhone")
    ELSE IF session0.state = "COLLECT_PHONE"
    THEN (IF ~truthy(X.phone) THEN serverJs_ask(M, callSid, "reaskPhone")
          ELSE serverJs_ask(serverJs_setSession(M, callSid, [state |-> "COLLECT_TIME", data |-> [phone |-> X.phone]]),
                            callSid, "askTime"))
    ELSE IF session0.state = "COLLECT_TIME" THEN serverJs_confirm(M, callSid, X, session0, hex)
    ELSE IF X.hasDr
    THEN (IF Len(X.drMatches) = 1 THEN serverJs_book(M, callSid, X.drMatches[1], "doctorResolved")
          ELSE IF Len(X.drMatches) > 1
          THEN serverJs_ask(serverJs_setSession(M, callSid,
                                [state |-> "ASK_DOCTOR_CHOICE",
                                 data |-> [doctorCandidates |-> [i \in DOMAIN X.drMatches |-> X.drMatches[i].id]]]),
                            callSid, "multipleMatches")
          ELSE serverJs_ask(serverJs_setSession(M, callSid, [state |-> "ASK_DEPARTMENT", data |-> <<>>]),
                            callSid, "doctorNotFound"))
    ELSE IF session0.state = "ASK_DOCTOR_CHOICE"
    THEN (IF Len(X.nameMatches) = 1 THEN serverJs_book(M, callSid, X.nameMatches[1], "doctorChosen")
          ELSE serverJs_ask(M, callSid, "stillNoDoctor"))
    ELSE IF truthy(X.dept) THEN serverJs_listDept(M, callSid, X.dept, listDoctorsByDept(X.dept, <<"G","u","r","g","a","o","n">>))
    ELSE IF session0.state = "ASK_DEPARTMENT" THEN serverJs_ask(M, callSid, "askDepartmentAgain")
    ELSE IF session0.state = "ASK_BOOK_OR_LIST_MORE"
    THEN (IF Len(X.nameMatches) = 1 THEN serverJs_book(M, callSid, X.nameMatches[1], "doctorChosen")
          ELSE serverJs_ask(M, callSid, "chooseDoctor"))
    ELSE serverJs_ask(M, callSid, "fallback")
\* M: the stores after getSession and the user's transcript line
serverJs_escalation(M, callSid, X, session0, hex) ==
    IF X.escalate THEN [M |-> M, say |-> Prompt("handoff", FALSE), transfer |-> TRUE]
    ELSE serverJs_stateMachine(M, callSid, X, session0, hex)
serverJs_getAIAnswerHospital(M, callSid, X, hex) ==
    serverJs_escalation(serverJs_pushTranscript(getSession(M, callSid), callSid, "user"), callSid, X,
                        session(M, callSid), hex)

\* the deployments of the snapshot: without OPENAI_API_KEY hospitalLLMPolish
\* returns rawReply at once and the completion request of education mode
\* is rejected
SnapshotEnvironments == {
    [MODE |-> "education", ENABLE_POLISH |-> FALSE, OPENAI_API_KEY |-> FALSE, AGENT_NUMBER |-> FALSE],
    [MODE |-> "hospital", ENABLE_POLISH |-> FALSE, OPENAI_API_KEY |-> FALSE, AGENT_NUMBER |-> TRUE] }
SnapshotQueryModes == {"hospital", "education", ""}

serverJs_reply(id, route, callSid, sttLang, mode, say, transfer) ==
    [ id |-> id, route |-> route, call |-> callSid, lang |-> sttLang,
      prompts |-> IF transfer
                  THEN (IF env.AGENT_NUMBER THEN <<say>> ELSE <<say, Prompt("transferUnavailable", FALSE)>>)
                  ELSE <<say, IF mode = "education" THEN Notice("askAnother", "en-US") ELSE Notice("anythingElse", sttLang)>>,
      twiml |-> IF transfer
                THEN (IF env.AGENT_NUMBER THEN <<"Play", "Dial">> ELSE <<"Play", "Play", "Hangup">>)
                ELSE <<"Play", "Gather">> ]

\* await getAIAnswer in the snapshot: the hospital engine runs to its end,
\* the education engine is suspended in its completion request. M0: the
\* stores when the handler read sttLang and mode, R: what the engine did
serverJs_answered(M, id, route, callSid, sttLang, mode, say, transfer) ==
    /\ Commit(M)
    /\ response' = serverJs_reply(id, route, callSid, sttLang, mode, say, transfer)
    /\ pending' = pending
serverJs_hospitalAnswer(M0, id, route, callSid, R) ==
    serverJs_answered(serverJs_pushTranscript(R.M, callSid, "assistant"), id, route, callSid,
                      IF route = "/handle-input" THEN getSttLang(R.M, callSid) ELSE getSttLang(M0, callSid),
                      IF route = "/handle-input" THEN session(R.M, callSid).mode ELSE session(M0, callSid).mode,
                      R.say, R.transfer)
serverJs_answer(M, id, route, callSid, u, X, hex) ==
    IF session(M, callSid).mode = "hospital"
    THEN serverJs_hospitalAnswer(M, id, route, callSid, serverJs_getAIAnswerHospital(M, callSid, X, hex))
    ELSE suspend(getSession(M, callSid),
                 suspended(M, id, route, callSid, u, "completion", Prompt("answer", FALSE), FALSE))

serverJs_lockLang(M, callSid, X) == IF X.pref /= "null" THEN serverJs_setSession(M, callSid, [lang |-> X.pref]) ELSE M

\* POST /welcome; phase tells a request of the carrier's own from one it
\* makes because the previous response was a Redirect
serverJs_welcomed(M, id, callSid, phase) ==
    /\ request' = [id |-> id, route |-> "/welcome", call |-> callSid, speech |-> 0, phase |-> phase]
    /\ Commit(M)
    /\ response' = [ id |-> id, route |-> "/welcome", call |-> callSid, lang |-> getSttLang(M, callSid),
                     prompts |-> <<Prompt("greeting", FALSE)>>, twiml |-> <<"Gather">> ]
    /\ served' = served + 1
    /\ UNCHANGED <<env, pending>>
serverJs_welcome(callSid, mode, phase) ==
    serverJs_welcomed(serverJs_setSession(serverJs_rememberCall(Stores, callSid, [mode |-> mode]), callSid,
                                          [mode |-> mode, state |-> "NEW",
                                           lang |-> IF mode = "hospital" THEN "en-IN" ELSE "null", data |-> <<>>]),
                      served + 1, callSid, phase)
serverJs_Welcome(callSid, modeFromQuery) ==
    serverJs_welcome(callSid, IF modeFromQuery \in {"hospital", "education"} THEN modeFromQuery ELSE env.MODE, "start")
\* the carrier follows twiml.redirect({ method: "POST" }, `${BASE_URL}/welcome`):
\* the URL has no mode query
serverJs_Redirected(callSid) ==
    /\ response.twiml = <<"Redirect">>
    /\ response.call = callSid
    /\ serverJs_welcome(callSid, env.MODE, "redirect")

serverJs_HandleInput(callSid, u, X, hex) ==
    /\ served' = served + 1
    /\ request' = [id |-> served + 1, route |-> "/handle-input", call |-> callSid, speech |-> u, phase |-> "start"]
    /\ IF X.tRaw = <<>>
       THEN /\ response' = [ id |-> served + 1, route |-> "/handle-input", call |-> callSid, lang |-> "null",
                             prompts |-> <<>>, twiml |-> <<"Redirect">> ]
            /\ UNCHANGED <<sessionStore, callMetaStore, recentCalls, transcriptStore, convoStore, persisted, pending>>
       ELSE serverJs_answer(serverJs_lockLang(Stores, callSid, X), served + 1, "/handle-input", callSid, u, X, hex)
    /\ UNCHANGED env

\* M: the stores once the language preference is applied and the session read
serverJs_followup(M, id, callSid, u, X, hex) ==
    IF X.tRaw = <<>> \/ X.endWord THEN notice(M, id, "/handle-followup", callSid, "goodbye", <<"Play", "Hangup">>)
    ELSE serverJs_answer(M, id, "/handle-followup", callSid, u, X, hex)
serverJs_HandleFollowup(callSid, u, X, hex) ==
    /\ served' = served + 1
    /\ request' = [id |-> served + 1, route |-> "/handle-followup", call |-> callSid, speech |-> u, phase |-> "start"]
    /\ serverJs_followup(getSession(serverJs_lockLang(Stores, callSid, X), callSid), served + 1, callSid, u, X, hex)
    /\ UNCHANGED env

\* the completion request of getAIAnswerEducation rejects; the snapshot's
\* handlers have no catch block, so no response is sent
serverJs_CompletionFails(p) ==
    /\ p \in pending /\ p.waits = "completion"
    /\ pending' = pending \ {p}
    /\ request' = [id |-> p.id, route |-> p.route, call |-> p.call, speech |-> p.speech, phase |-> "resume"]
    /\ UNCHANGED <<env, served, response, sessionStore, callMetaStore, recentCalls, transcriptStore, convoStore, persisted>>

\* one call against the snapshot; the carrier posts the next request when the
\* previous one is answered, and follows a Redirect before anything else
SnapshotInit ==
    /\ env \in SnapshotEnvironments
    /\ sessionStore = <<>> /\ callMetaStore = <<>> /\ recentCalls = <<>>
    /\ transcriptStore = <<>> /\ convoStore = <<>> /\ persisted = <<>>
    /\ pending = {} /\ served = 0 /\ request = NoRequest /\ response = NoResponse
SnapshotNext ==
    \/ \E modeFromQuery \in SnapshotQueryModes :
          served < MaxTurns /\ pending = {} /\ response.twiml /= <<"Redirect">> /\ serverJs_Welcome("CA1", modeFromQuery)
    \/ serverJs_Redirected("CA1")
    \/ \E u \in DOMAIN SpeechResults, hex \in RandomHex :
          /\ served < MaxTurns /\ pending = {} /\ response.twiml /= <<"Redirect">>
          /\ serverJs_HandleInput("CA1", u, serverJs_Understood[u], hex)
    \/ \E u \in DOMAIN SpeechResults, hex \in RandomHex :
          /\ served < MaxTurns /\ pending = {} /\ response.twiml /= <<"Redirect">>
          /\ serverJs_HandleFollowup("CA1", u, serverJs_Understood[u], hex)
    \/ \E p \in pending : serverJs_CompletionFails(p)

Snapshot == SnapshotInit /\ [][SnapshotNext]_vars

\* ---------------------------------------------------------------------------
\* detectLangPreference applied to composed utterances
\* ---------------------------------------------------------------------------
MaxWords == 3
PreferenceWords == <<<<"h","i","n","d","i">>, <<"E","N","G","L","I","S","H">>, <<"p","l","e","a","s","e">>, <<"u0905","u0902","u0917","u094D","u0930","u0947","u091C","u0940">>, <<"u0939","u093F","u0902","u0926","u0940">>, <<"u092E","u0947","u0902">>>>
\* the words of an utterance, separated by single spaces
RECURSIVE spoken(_, _)
spoken(ws, i) == IF i > Len(ws) THEN <<>>
                 ELSE PreferenceWords[ws[i]] \o (IF i < Len(ws) THEN <<" ">> ELSE <<>>) \o spoken(ws, i + 1)
Utterances == UNION {[1..n -> DOMAIN PreferenceWords] : n \in 1..MaxWords}

\* const pref = detectLangPreference(text)
DetectLangPreference(ws) ==
    /\ request' = [NoRequest EXCEPT !.route = "detectLangPreference", !.speech = spoken(ws, 1)]
    /\ response' = [NoResponse EXCEPT !.route = "detectLangPreference", !.lang = detectLangPreference(spoken(ws, 1))]
    /\ UNCHANGED <<env, sessionStore, callMetaStore, recentCalls, transcriptStore, convoStore, persisted, pending, served>>

PreferenceInit == Init /\ env \in DialogueEnvironments
PreferenceNext == \E ws \in Utterances : DetectLangPreference(ws)
Preference == PreferenceInit /\ [][PreferenceNext]_vars

\* ---------------------------------------------------------------------------
\* One hospital call across process restarts
\* ---------------------------------------------------------------------------
\* the process exits and starts again: the Maps and recentCalls are created
\* empty, persisted is read back from transcripts.json, suspended handlers
\* are gone
ProcessRestart ==
    /\ persisted /= <<>>
    /\ request.phase /= "restart"
    /\ sessionStore' = <<>>
    /\ callMetaStore' = <<>>
    /\ recentCalls' = <<>>
    /\ transcriptStore' = <<>>
    /\ convoStore' = <<>>
    /\ persisted' = persisted
    /\ pending' = {}
    /\ request' = [NoRequest EXCEPT !.phase = "restart"]
    /\ response' = NoResponse
    /\ UNCHANGED <<env, served>>

RestartsInit == Init /\ env \in DialogueEnvironments
RestartsNext ==
    \/ served < MaxTurns /\ pending = {} /\ Welcome("CA1", "")
    \/ \E u \in 1..MaxSpeech, hex \in FirstHex :
          served < MaxTurns /\ pending = {} /\ HandleInput("CA1", u, Understood[u], hex)
    \/ \E u \in 1..MaxSpeech, hex \in FirstHex :
          served < MaxTurns /\ pending = {} /\ HandleFollowup("CA1", u, Understood[u], hex)
    \/ ProcessRestart
Restarts == RestartsInit /\ [][RestartsNext]_vars

\* ---------------------------------------------------------------------------
\* slotToHindi applied to slot descriptors: a day, an hour, a meridiem
\* ---------------------------------------------------------------------------
SlotDays == <<<<"T","o","d","a","y">>, <<"T","o","m","o","r","r","o","w">>, <<"D","a","y"," ","a","f","t","e","r"," ","t","o","m","o","r","r","o","w">>, <<"M","o","n","d","a","y">>, <<"T","u","e","s","d","a","y">>, <<"W","e","d","n","e","s","d","a","y">>,
              <<"T","h","u","r","s","d","a","y">>, <<"F","r","i","d","a","y">>, <<"S","a","t","u","r","d","a","y">>, <<"S","u","n","d","a","y">>>>
SlotMinutes == <<<<>>, <<":","3","0">>>>
SlotMeridiems == <<<<"A","M">>, <<"P","M">>>>
MaxHour == 12
\* String(h)
numeral(h) == IF h < 10 THEN <<Digits[h + 1]>> ELSE <<Digits[(h \div 10) + 1], Digits[(h % 10) + 1]>>
\* the descriptor of parts <<day, hour, minutes, meridiem>>, as in nextSlots
descriptor(parts) ==
    SlotDays[parts[1]] \o <<" ">> \o numeral(parts[2]) \o SlotMinutes[parts[3]] \o <<" ">> \o SlotMeridiems[parts[4]]
\* slots.map(slotToHindi) for one slot
SlotToHindi(parts) ==
    /\ request = NoRequest
    /\ request' = [NoRequest EXCEPT !.route = "slotToHindi", !.speech = parts]
    /\ response' = [NoResponse EXCEPT !.route = "slotToHindi", !.prompts = <<slotToHindi(descriptor(parts))>>]
    /\ UNCHANGED <<env, sessionStore, callMetaStore, recentCalls, transcriptStore, convoStore, persisted, pending, served>>

SlotDescriptorsInit == Init /\ env \in DialogueEnvironments
SlotDescriptorsNext ==
    \E d \in DOMAIN SlotDays, h \in 1..MaxHour, mm \in DOMAIN SlotMinutes, mer \in DOMAIN SlotMeridiems :
        SlotToHindi(<<d, h, mm, mer>>)
SlotDescriptors == SlotDescriptorsInit /\ [][SlotDescriptorsNext]_vars

\* ---------------------------------------------------------------------------
\* The snapshot src/unnamed/part_003: its hospital engine and handlers
\* ---------------------------------------------------------------------------
\* (patient\s*name|my\s*name|name|full\s*name), the alternatives in order
NameFrames == << <<<<"p","a","t","i","e","n","t">>, <<"n","a","m","e">>>>, <<<<"m","y">>, <<"n","a","m","e">>>>, <<<<>>, <<"n","a","m","e">>>>, <<<<"f","u","l","l">>, <<"n","a","m","e">>>> >>
\* the offset after alternative k matched at offset i and followed by \b, or -1
frameEnd(low, i, k) ==
    IF ~matchAt(low, i, NameFrames[k][1]) THEN -1
    ELSE IF matchAt(low, IF NameFrames[k][1] = <<>> THEN i ELSE skipSpace(low, i + Len(NameFrames[k][1])), NameFrames[k][2])
            /\ boundary(low, (IF NameFrames[k][1] = <<>> THEN i ELSE skipSpace(low, i + Len(NameFrames[k][1]))) + 4)
    THEN (IF NameFrames[k][1] = <<>> THEN i ELSE skipSpace(low, i + Len(NameFrames[k][1]))) + 4
    ELSE -1
framesAt(low, i) == {k \in DOMAIN NameFrames : boundary(low, i) /\ frameEnd(low, i, k) >= 0}
\* \s*(is)?\s*[:\-]?\s* from offset e
optionalColon(low, c) == IF c < Len(low) /\ low[c + 1] \in {":", "-"} THEN c + 1 ELSE c
optionalIs(low, a) == IF matchAt(low, a, <<"i","s">>) THEN a + 2 ELSE a
frameTail(low, e) == skipSpace(low, optionalColon(low, skipSpace(low, optionalIs(low, skipSpace(low, e)))))
\* raw without the first match of the framing pattern
unframed(raw, low, starts) ==
    IF starts = {} THEN raw
    ELSE SubSeq(raw, 1, SetMin(starts))
         \o slice(raw, frameTail(low, frameEnd(low, SetMin(starts), SetMin(framesAt(low, SetMin(starts))))))
cleanNameUtterance(text) ==
    trim(squeeze(unframed(trim(text), toLowerCase(trim(text)),
                          {i \in 0..Len(trim(text)) : framesAt(toLowerCase(trim(text)), i) /= {}}), 1))

\* out.replace(/patient\s*name.*$/i, "")
beforePatientName(out, low) ==
    LET starts == {i \in 0..Len(out) : matchAt(low, i, <<"p","a","t","i","e","n","t">>) /\ matchAt(low, skipSpace(low, i + 7), <<"n","a","m","e">>)}
    IN  IF starts = {} THEN out ELSE SubSeq(out, 1, SetMin(starts))
part003_extractPreferredTime(text) ==
    LET raw == trim(text)
        tt == normalize(raw)
    IN  IF ~(\/ \E i \in 1..9 : includes(tt, DayWords[i])
             \/ \E i \in 1..8 : includes(tt, TimeWords[i])
             \/ hasClockTime(raw))
        THEN null
        ELSE trim(beforePatientName(timePhrase(raw, wordMatch(raw, firstN(DayPattern, 9)), wordMatch(raw, firstN(PartOfDayPattern, 4))),
                                    toLowerCase(timePhrase(raw, wordMatch(raw, firstN(DayPattern, 9)), wordMatch(raw, firstN(PartOfDayPattern, 4))))))

\* the speech results the carrier posts to the snapshot
PartThreeSpeech == <<
    <<>>,
    <<"D","r"," ","N","e","h","a"," ","S","h","a","r","m","a">>,
    <<"c","a","r","d","i","o","l","o","g","y">>,
    <<"2">>,
    <<"R","o","h","i","t"," ","N","a","r","w","a","l">>,
    <<"m","y"," ","n","a","m","e"," ","i","s">>,
    <<"n","a","m","e">>,
    <<"m","y"," ","n","a","m","e"," ","i","s"," ","A","m","i","t">>,
    <<"I"," ","h","a","v","e"," ","h","e","a","r","t"," ","p","a","i","n">>,
    <<"9","8","7","6","5","4","3","2","1","0">>,
    <<"t","o","m","o","r","r","o","w"," ","5"," ","p","m">>,
    <<"P","a","t","i","e","n","t"," ","n","a","m","e",":"," ","D","e","v">> >>
part003_understand(speechResult) ==
    LET tRaw == trim(speechResult)
        norm == normalize(tRaw)
    IN  [ tRaw |-> tRaw,
          pref |-> detectLangPreference(tRaw),
          phone |-> extractPhone(tRaw),
          name |-> cleanNameUtterance(tRaw),
          escalate |-> wantsHuman(tRaw) \/ looksLikeMedicalAdvice(tRaw),
          dept |-> detectDept(tRaw),
          hasDr |-> hasDoctorRef(norm),
          time |-> part003_extractPreferredTime(tRaw),
          drMatches |-> findDoctorByName(doctorQuery(tRaw)),
          num |-> parseInt(norm),
          nameMatches |-> findDoctorByName(tRaw),
          endWord |-> someIncluded(toLowerCase(tRaw), EndWords) ]
part003_Understood == [u \in DOMAIN PartThreeSpeech |-> part003_understand(PartThreeSpeech[u])] \o <<>>

\* session.state === "COLLECT_NAME": the cleaned utterance is the name
part003_nameCollected(M, callSid, X) ==
    IF X.name /= <<>>
    THEN ask(setSession(M, callSid, [state |-> "COLLECT_PHONE",
                                     data |-> ("patientName" :> X.name)
                                              @@ (IF truthy(X.time) THEN "preferredTime" :> X.time ELSE <<>>)]),
             callSid, "askPhone")
    ELSE ask(M, callSid, "askName")
\* session.state === "COLLECT_PHONE", once the phone is stored
part003_phoneStored(M, callSid, alreadyTime, hex) ==
    IF truthy(alreadyTime) THEN buildConfirmation(M, callSid, alreadyTime, hex)
    ELSE ask(setSession(M, callSid, [state |-> "COLLECT_TIME"]), callSid, "askTime")
part003_phoneCollected(M, callSid, X, hex) ==
    IF ~truthy(X.phone) THEN ask(M, callSid, "reaskPhone")
    ELSE part003_phoneStored(setSession(M, callSid, [data |-> [phone |-> X.phone]]), callSid,
                             trim(IF truthy(slot(session(M, callSid).data, "preferredTime"))
                                  THEN session(M, callSid).data.preferredTime ELSE <<>>),
                             hex)
part003_stateMachine(M, callSid, X, session0, hex) ==
    IF session0.state = "COLLECT_NAME" THEN part003_nameCollected(M, callSid, X)
    ELSE IF session0.state = "COLLECT_PHONE" THEN part003_phoneCollected(M, callSid, X, hex)
    ELSE IF session0.state = "COLLECT_TIME" THEN buildConfirmation(M, callSid, X.tRaw, hex)
    ELSE routing(M, callSid, X, session0)
part003_getAIAnswerHospital(M, callSid, X, hex) ==
    IF X.escalate
    THEN [M |-> pushTranscript(getSession(M, callSid), callSid, "user"),
          say |-> Prompt("handoff", isHi(M, callSid)), transfer |-> TRUE]
    ELSE part003_stateMachine(pushTranscript(getSession(M, callSid), callSid, "user"), callSid, X, session(M, callSid), hex)

\* await getAIAnswer in hospital mode without OPENAI_API_KEY: hospitalPolish
\* returns raw at once and the handler runs to its end
part003_answered(M, id, route, callSid, u, R) ==
    complete(pushTranscript(R.M, callSid, "assistant"), suspended(M, id, route, callSid, u, "polish", R.say, R.transfer), R.say)
part003_HandleInput(callSid, u, X, hex) ==
    /\ served' = served + 1
    /\ request' = [id |-> served + 1, route |-> "/handle-input", call |-> callSid, speech |-> u, phase |-> "start"]
    /\ IF X.tRaw = <<>>
       THEN notice(getSession(Stores, callSid), served + 1, "/handle-input", callSid, "didNotCatch", <<"Gather">>)
       ELSE part003_answered(lockLang(Stores, callSid, X), served + 1, "/handle-input", callSid, u,
                             part003_getAIAnswerHospital(lockLang(Stores, callSid, X), callSid, X, hex))
    /\ UNCHANGED env
part003_followup(M, id, callSid, u, X, hex) ==
    IF X.tRaw = <<>> THEN notice(M, id, "/handle-followup", callSid, "sayAgain", <<"Gather">>)
    ELSE IF X.endWord THEN notice(M, id, "/handle-followup", callSid, "goodbye", <<"Play", "Hangup">>)
    ELSE part003_answered(M, id, "/handle-followup", callSid, u, part003_getAIAnswerHospital(M, callSid, X, hex))
part003_HandleFollowup(callSid, u, X, hex) ==
    /\ served' = served + 1
    /\ request' = [id |-> served + 1, route |-> "/handle-followup", call |-> callSid, speech |-> u, phase |-> "start"]
    /\ part003_followup(getSession(lockLang(Stores, callSid, X), callSid), served + 1, callSid, u, X, hex)
    /\ UNCHANGED env

PartThreeInit == Init /\ env \in DialogueEnvironments
PartThreeNext ==
    \/ served < MaxTurns /\ pending = {} /\ Welcome("CA1", "")
    \/ \E u \in DOMAIN PartThreeSpeech, hex \in FirstHex :
          served < MaxTurns /\ pending = {} /\ part003_HandleInput("CA1", u, part003_Understood[u], hex)
    \/ \E u \in DOMAIN PartThreeSpeech, hex \in FirstHex :
          served < MaxTurns /\ pending = {} /\ part003_HandleFollowup("CA1", u, part003_Understood[u], hex)
PartThree == PartThreeInit /\ [][PartThreeNext]_vars

\* ---------------------------------------------------------------------------
\* One hospital call whose caller asks for a person or for advice
\* ---------------------------------------------------------------------------
EscalationSpeech == <<
    <<>>,
    <<"I"," ","h","a","v","e"," ","h","e","a","r","t"," ","p","a","i","n">>,
    <<"c","o","n","n","e","c","t"," ","m","e"," ","t","o"," ","a","n"," ","a","g","e","n","t">>,
    <<"n","o",","," ","c","o","n","n","e","c","t"," ","m","e"," ","t","o"," ","a","n"," ","a","g","e","n","t">>,
    <<"t","h","a","n","k","s",","," ","I"," ","n","e","e","d"," ","a"," ","d","i","a","g","n","o","s","i","s">>,
    <<"c","a","r","d","i","o","l","o","g","y">>,
    <<"D","r"," ","N","e","h","a"," ","S","h","a","r","m","a">>,
    <<"b","y","e">>,
    <<"m","y"," ","n","a","m","e"," ","i","s"," ","A","m","i","t",","," ","9","8","7","6","5","4","3","2","1","0",","," ","a","g","e","n","t"," ","t","o","m","o","r","r","o","w">>,
    <<"h","i","n","d","i"," ","a","g","e","n","t">> >>
EscalationUnderstood == [u \in DOMAIN EscalationSpeech |-> understand(EscalationSpeech[u])] \o <<>>
EscalationsInit == Init /\ env \in DialogueEnvironments
EscalationsNext ==
    \/ served < MaxTurns /\ pending = {} /\ Welcome("CA1", "")
    \/ \E u \in DOMAIN EscalationSpeech, hex \in FirstHex :
          served < MaxTurns /\ pending = {} /\ HandleInput("CA1", u, EscalationUnderstood[u], hex)
    \/ \E u \in DOMAIN EscalationSpeech, hex \in FirstHex :
          served < MaxTurns /\ pending = {} /\ HandleFollowup("CA1", u, EscalationUnderstood[u], hex)
Escalations == EscalationsInit /\ [][EscalationsNext]_vars

\* ---------------------------------------------------------------------------
\* One hospital call whose caller answers each question with what was asked
\* for: the carrier posts the first speech to /handle-input and every later
\* one to /handle-followup (the action of the gather it was played)
\* ---------------------------------------------------------------------------
BookingSpeech == <<
    <<"c","a","r","d","i","o","l","o","g","y">>,
    <<"D","r"," ","N","e","h","a"," ","S","h","a","r","m","a">>,
    <<"o","r","t","h","o","p","e","d","i","c","s"," ","t","o","m","o","r","r","o","w">>,
    <<"2">>,
    <<"1">>,
    <<"m","y"," ","n","a","m","e"," ","i","s"," ","A","m","i","t">>,
    <<"p","a","t","i","e","n","t"," ","n","a","m","e"," ","i","s"," ","M","a","n","o","j">>,
    <<"9","8","7","6","5","4","3","2","1","0">>,
    <<"+","9","1"," ","9","8","7","6","5"," ","4","3","2","1","0">>,
    <<"t","o","m","o","r","r","o","w"," ","5"," ","p","m">>,
    <<"t","o","m","o","r","r","o","w"," ","a","f","t","e","r","n","o","o","n">>,
    <<"E","N","T">>,
    <<"f","r","i","d","a","y"," ","m","o","r","n","i","n","g">> >>
BookingUnderstood == [u \in DOMAIN BookingSpeech |-> understand(BookingSpeech[u])] \o <<>>
\* requests of one call
MaxBookingRequests == 7
\* the utterance gives the datum session s is waiting for, without asking for
\* a person or for advice
supplies(s, X) ==
    /\ X.tRaw /= <<>>
    /\ ~X.escalate
    /\ CASE s.state = "NEW" ->
              IF X.hasDr THEN Len(X.drMatches) = 1
              ELSE truthy(X.dept) /\ listDoctorsByDept(X.dept, <<"G","u","r","g","a","o","n">>) /= <<>>
         [] s.state = "ASK_BOOK_OR_LIST_MORE" ->
              IF X.hasDr THEN Len(X.drMatches) = 1
              ELSE /\ ~truthy(X.dept)
                   /\ \/ X.num[1] /\ X.num[2] \in 1..Len(listDoctorsByDept(slot(s.data, "dept"), <<"G","u","r","g","a","o","n">>))
                      \/ Len(X.nameMatches) = 1
         [] s.state = "COLLECT_NAME" -> truthy(X.name)
         [] s.state = "COLLECT_PHONE" -> truthy(X.phone)
         [] s.state = "COLLECT_TIME" -> truthy(X.time)
         [] OTHER -> FALSE
\* the call goes on: the last response did not hang up or dial
listening == response.twiml /= <<>> /\ response.twiml[Len(response.twiml)] = "Gather"
BookingsInit == Init /\ env \in DialogueEnvironments
BookingsNext ==
    \/ served = 0 /\ Welcome("CA1", "")
    \/ \E u \in DOMAIN BookingSpeech, hex \in RandomHex :
          /\ served = 1 /\ listening
          /\ supplies(session(Stores, "CA1"), BookingUnderstood[u])
          /\ HandleInput("CA1", u, BookingUnderstood[u], hex)
    \/ \E u \in DOMAIN BookingSpeech, hex \in RandomHex :
          /\ served > 1 /\ served < MaxBookingRequests /\ listening
          /\ supplies(session(Stores, "CA1"), BookingUnderstood[u])
          /\ HandleFollowup("CA1", u, BookingUnderstood[u], hex)
Bookings == BookingsInit /\ [][BookingsNext]_vars

\* ---------------------------------------------------------------------------
\* chunkText of the knowledge-base builder, one loop iteration per step
\* ---------------------------------------------------------------------------
\* texts of up to MaxText characters over letters, line feeds and carriage
\* returns
MaxText == 5
TextChars == {"a", "\n", "\r"}
RECURSIVE Texts(_)
Texts(n) == IF n = 0 THEN {<<>>} ELSE Texts(n - 1) \cup {Append(t, c) : t \in Texts(n - 1), c \in TextChars}
\* opts.maxChars in 1..MaxChars, opts.overlap in 0..MaxOverlap
MaxChars == 3
MaxOverlap == 3
\* the loop is followed for at most MaxChunks iterations
MaxChunks == 7
\* chunks shorter than this are dropped from the result
MinChunk == 40

\* .replace(/\n{3,}/g, "\n\n") from character i on
RECURSIVE collapseNewlines(_, _)
collapseNewlines(s, i) ==
    IF i > Len(s) THEN <<>>
    ELSE IF s[i] /= "\n" THEN <<s[i]>> \o collapseNewlines(s, i + 1)
    ELSE LET after == {j \in i..(Len(s) + 1) : j > Len(s) \/ s[j] /= "\n"}
             next == SetMin(after)
         IN  (IF next - i >= 3 THEN <<"\n", "\n">> ELSE SubSeq(s, i, next - 1)) \o collapseNewlines(s, next)
\* String(text || "").replace(/\r/g, "").replace(/\n{3,}/g, "\n\n").trim()
cleanText(text) == trim(collapseNewlines(SelectSeq(text, LAMBDA c : c /= "\r"), 1))
\* chunks.map((c) => c.trim()).filter((c) => c.length >= 40)
usable(chunks) == SelectSeq([k \in DOMAIN chunks |-> trim(chunks[k])], LAMBDA c : Len(c) >= MinChunk)

\* chunkText(text, { maxChars, overlap }) is called: the text is cleaned and
\* the loop variables are set
ChunkText(text, maxChars, overlap) ==
    /\ request = NoRequest
    /\ request' = [NoRequest EXCEPT !.route = "chunkText",
                                    !.speech = [text |-> text, maxChars |-> maxChars, overlap |-> overlap]]
    /\ response' = [route |-> "chunkText", clean |-> cleanText(text), i |-> 0, chunks |-> <<>>, pc |-> "while", value |-> <<>>]
    /\ UNCHANGED <<env, sessionStore, callMetaStore, recentCalls, transcriptStore, convoStore, persisted, pending, served>>
\* one pass through the body of while (i < clean.length)
ChunkIteration ==
    LET clean == response.clean
        i == response.i
        end == IF i + request.speech.maxChars < Len(clean) THEN i + request.speech.maxChars ELSE Len(clean)
    IN  /\ response.route = "chunkText" /\ response.pc = "while"
        /\ i < Len(clean)
        /\ Len(response.chunks) < MaxChunks
        /\ response' = [response EXCEPT !.chunks = Append(@, SubSeq(clean, i + 1, end)),
                                        !.pc = IF end = Len(clean) THEN "return" ELSE "while",
                                        !.i = IF end = Len(clean) THEN i
                                              ELSE IF end - request.speech.overlap > 0 THEN end - request.speech.overlap ELSE 0]
        /\ UNCHANGED <<env, sessionStore, callMetaStore, recentCalls, transcriptStore, convoStore, persisted, pending, served,
                       request>>
\* the loop is left, by its condition or by break: the trimmed chunks of 40
\* characters or more are returned
ChunkReturn ==
    /\ response.route = "chunkText"
    /\ response.pc = "return" \/ (response.pc = "while" /\ response.i >= Len(response.clean))
    /\ response' = [response EXCEPT !.pc = "done", !.value = usable(response.chunks)]
    /\ UNCHANGED <<env, sessionStore, callMetaStore, recentCalls, transcriptStore, convoStore, persisted, pending, served,
                   request>>
ChunkingInit == Init /\ env \in DialogueEnvironments
ChunkingNext ==
    \/ \E text \in Texts(MaxText), maxChars \in 1..MaxChars, overlap \in 0..MaxOverlap : ChunkText(text, maxChars, overlap)
    \/ ChunkIteration
    \/ ChunkReturn
Chunking == ChunkingInit /\ [][ChunkingNext]_vars

\* ------------------------------------------------------------------------
\* Properties
\* ------------------------------------------------------------------------
Slots == {"patientName", "phone", "doctorName", "dept", "preferredTime", "confirmationId"}
Routes == {"/handle-input", "/handle-followup"}
\* the session of call c before and after a step
before(c) == session(Stores, c)
after(c) == session(Stores, c)'
\* what the extractors find in the speech of the request handled by the step
heard == Understood[request'.speech]
\* the step receives a request of call c that reaches getAIAnswerHospital
engineTurn(c) ==
    /\ served' = served + 1
    /\ request'.call = c
    /\ request'.route \in Routes
    /\ heard.tRaw /= <<>>
    /\ ~(request'.route = "/handle-followup" /\ heard.endWord)
    /\ before(c).mode = "hospital"
\* the message the engine composed in a step of Dialogue
said == response'.prompts[1]
\* the last request of call c ran the engine to its end (Dialogue)
answered(c) ==
    /\ request.call = c
    /\ request.route \in Routes
    /\ Understood[request.speech].tRaw /= <<>>
    /\ ~(request.route = "/handle-followup" /\ Understood[request.speech].endWord)

\* C1: once a slot of a call holds a non-empty value, no request (/welcome,
\* /handle-input, /handle-followup) leaves it empty, null or missing
NoSlotRegression ==
    [][\A c \in Calls, k \in Slots :
         (has(sessionStore, c) /\ truthy(slot(sessionStore[c].data, k))) => truthy(slot(after(c).data, k))]_vars
\* a /welcome (which passes data: {}) has been served on a call whose phone
\* and doctor were already stored
NoSlotRegressionWitness ==
    /\ request.route = "/welcome"
    /\ has(sessionStore, "CA1")
    /\ truthy(slot(sessionStore["CA1"].data, "phone"))
    /\ truthy(slot(sessionStore["CA1"].data, "doctorName"))

\* a slot is known in a turn when the session held it or this turn's
\* utterance gives it
knownName(c) == truthy(slot(before(c).data, "patientName")) \/ truthy(heard.name)
knownPhone(c) == truthy(slot(before(c).data, "phone")) \/ truthy(heard.phone)
\* the messages that ask for the patient's name, and for the phone number
NameRequests == {"askName", "doctorResolved", "doctorChosen"}
PhoneRequests == {"askPhone", "reaskPhone"}
TimeRequests == {"askTimeBrief", "askTime"}

\* C2: a non-escalating turn in COLLECT_NAME with patientName and phone both
\* known after the capture does not ask for the name: it confirms when a time
\* is stored or extractable, and otherwise moves to COLLECT_TIME asking for
\* the day or time
NoDoubleAsking ==
    [][\A c \in Calls :
         (engineTurn(c) /\ ~heard.escalate /\ before(c).state = "COLLECT_NAME" /\ knownName(c) /\ knownPhone(c))
         => /\ said.kind \notin NameRequests
            /\ IF truthy(slot(before(c).data, "preferredTime")) \/ truthy(heard.time)
               THEN after(c).state = "CONFIRMED" /\ said.kind = "confirmation"
               ELSE after(c).state = "COLLECT_TIME" /\ said.kind \in TimeRequests]_vars
\* the time was asked for from COLLECT_NAME: name and phone were there, no time
NoDoubleAskingWitness ==
    /\ answered("CA1")
    /\ response.prompts[1].kind = "askTimeBrief"
    /\ sessionStore["CA1"].state = "COLLECT_TIME"
    /\ ~truthy(slot(sessionStore["CA1"].data, "preferredTime"))

\* C3: when patientName and phone are both held before the turn that resolves
\* a doctor, that turn does not ask for the patient's name or phone: the call
\* goes on to COLLECT_TIME, or to CONFIRMED when the time is known too
SkipAheadAtDoctorResolution ==
    [][\A c \in Calls :
         (/\ engineTurn(c)
          /\ truthy(slot(before(c).data, "patientName"))
          /\ truthy(slot(before(c).data, "phone"))
          /\ before(c).state \in {"NEW", "ASK_BOOK_OR_LIST_MORE"}
          /\ after(c).state \notin {"NEW", "ASK_BOOK_OR_LIST_MORE"})
         => /\ said.kind \notin NameRequests \cup PhoneRequests
            /\ after(c).state \in {"COLLECT_TIME", "CONFIRMED"}]_vars

\* the handler that resumes in a step
resumed == CHOOSE p \in pending : p \notin pending'
\* the step sends the response of a hospital turn of call c: at once, or when
\* hospitalPolish resumes
hospitalResponse(c) ==
    \/ engineTurn(c) /\ pending' = pending
    \/ /\ request'.phase = "resume"
       /\ request'.call = c
       /\ pending' /= pending
       /\ resumed.waits = "polish"
\* a response that hands the call over: Dial, or the notice and a hangup
transferred(r) == r.twiml \in {<<"Play", "Dial">>, <<"Play", "Play", "Hangup">>}
BookingSlots == {"doctorName", "dept", "preferredTime", "confirmationId"}

\* C4 (as stated): the response to every escalating utterance is a transfer
\* with the fixed handoff message
EscalationFixedMessage ==
    [][\A c \in Calls :
         (hospitalResponse(c) /\ heard.escalate)
         => /\ response'.prompts[1] = Prompt("handoff", response'.prompts[1].hi)
            /\ transferred(response')]_vars

\* C4 (amended): an escalating utterance, in any state and whatever else it
\* names, leaves the dialogue state and the booking slots unchanged, composes
\* the handoff message with transfer = true, and the response is a transfer
\* whose message is that fixed text, or its paraphrase when polish is enabled
\* and configured and the paraphrasing call succeeds
EscalationPrecedence ==
    [][\A c \in Calls :
         /\ (engineTurn(c) /\ heard.escalate)
            => /\ after(c).state = before(c).state
               /\ \A k \in BookingSlots : slot(after(c).data, k) = slot(before(c).data, k)
               /\ IF pending' = pending
                  THEN /\ response'.prompts[1] = Prompt("handoff", getSttLang(Stores, c)' = "hi-IN")
                       /\ transferred(response')
                  ELSE /\ env.ENABLE_POLISH /\ env.OPENAI_API_KEY
                       /\ \E p \in pending' \ pending :
                            /\ p.say = Prompt("handoff", getSttLang(Stores, c)' = "hi-IN")
                            /\ p.transfer
                            /\ p.waits = "polish"
         /\ (hospitalResponse(c) /\ heard.escalate /\ request'.phase = "resume")
            => /\ response'.prompts[1] \in {resumed.say, [resumed.say EXCEPT !.reworded = TRUE]}
               /\ resumed.say.kind = "handoff"
               /\ transferred(response')
               /\ sessionStore' = sessionStore]_vars
\* a call that was past NEW with a doctor chosen got a reworded handoff for an
\* utterance that also names a department
EscalationPrecedenceWitness ==
    /\ response.prompts /= <<>>
    /\ response.prompts[1].kind = "handoff"
    /\ response.prompts[1].reworded
    /\ Understood[request.speech].escalate
    /\ truthy(Understood[request.speech].dept)
    /\ has(sessionStore, request.call)
    /\ sessionStore[request.call].state = "COLLECT_NAME"

\* C5: in COLLECT_NAME with patientName empty, an answer that is just a name
\* (no "name" framing, no escalation keyword) is stored as patientName and the
\* state advances to COLLECT_PHONE
BareNameAccepted ==
    [][\A c \in Calls :
         (/\ engineTurn(c)
          /\ before(c).state = "COLLECT_NAME"
          /\ ~truthy(slot(before(c).data, "patientName"))
          /\ ~truthy(slot(before(c).data, "phone"))
          /\ heard.tRaw = <<"R","o","h","i","t"," ","N","a","r","w","a","l">>)
         => /\ slot(after(c).data, "patientName") = heard.tRaw
            /\ after(c).state = "COLLECT_PHONE"
            /\ said.kind \in PhoneRequests]_vars

\* the number of places where k occurs in s
occurrences(s, k) == Cardinality({i \in 0..(Len(s) - Len(k)) : matchAt(s, i, k)})
TimeLabel(hi) == IF hi THEN <<"u092A","u0938","u0902","u0926","u0940","u0926","u093E"," ","u0938","u092E","u092F",":"," ">> ELSE <<"P","r","e","f","e","r","r","e","d"," ","t","i","m","e",":"," ">>
\* the confirmation message of the last request of call c, if it sent one
confirmation(c) == response.prompts[1]
sentConfirmation(c) == answered(c) /\ response.id = request.id /\ response.prompts[1].kind = "confirmation"

\* C6: every confirmation message holds exactly one preferred time, the one
\* the same turn stored in the preferredTime slot
SinglePreferredTime ==
    \A c \in Calls :
        sentConfirmation(c)
        => /\ truthy(slot(sessionStore[c].data, "preferredTime"))
           /\ confirmation(c).booking.preferredTime = sessionStore[c].data.preferredTime
           /\ occurrences(Render(confirmation(c)), TimeLabel(confirmation(c).hi)) = 1
           /\ includes(Render(confirmation(c)),
                       TimeLabel(confirmation(c).hi) \o sessionStore[c].data.preferredTime \o <<"."," ">>)
\* a time was stored in NEW and the confirming utterance states another one
SinglePreferredTimeWitness ==
    /\ sentConfirmation("CA1")
    /\ sessionStore["CA1"].data.preferredTime = <<"t","o","m","o","r","r","o","w">>
    /\ truthy(Understood[request.speech].time)
    /\ Understood[request.speech].time /= <<"t","o","m","o","r","r","o","w">>

\* C7: once a call's session language is hi-IN, no /handle-input or
\* /handle-followup turn sets it to null, and none changes it unless its
\* utterance states a preference for English
LanguageSticky ==
    [][\A c \in Calls :
         (/\ has(sessionStore, c)
          /\ sessionStore[c].lang = "hi-IN"
          /\ ~(request'.route = "/welcome" /\ request'.call = c))
         => /\ after(c).lang /= "null"
            /\ after(c).lang /= "hi-IN"
               => /\ request'.call = c
                  /\ request'.phase = "start"
                  /\ includes(toLowerCase(heard.tRaw), <<"e","n","g","l","i","s","h">>)]_vars
\* the language is still Hindi after a later turn that stated no preference
LanguageStickyWitness ==
    /\ request.route \in Routes
    /\ request.id >= 2
    /\ Understood[request.speech].tRaw /= <<>>
    /\ Understood[request.speech].pref = "null"
    /\ has(sessionStore, request.call)
    /\ sessionStore[request.call].lang = "hi-IN"
    /\ sessionStore[request.call].mode = "hospital"

\* C8: a patientName (a phone) that is non-empty when a turn starts has the
\* same value when the turn ends, whatever the utterance and the state
CaptureNeverOverwrites ==
    [][\A c \in Calls, k \in {"patientName", "phone"} :
         (has(sessionStore, c) /\ truthy(slot(sessionStore[c].data, k)))
         => slot(after(c).data, k) = sessionStore[c].data[k]]_vars
\* a turn whose utterance gives another name than the one held, after one
\* whose utterance gave another phone
CaptureNeverOverwritesWitness ==
    /\ answered("CA1")
    /\ truthy(Understood[request.speech].name)
    /\ truthy(slot(sessionStore["CA1"].data, "patientName"))
    /\ sessionStore["CA1"].data.patientName /= Understood[request.speech].name
    /\ sessionStore["CA1"].data.phone = <<"9","1","2","3","4","5","6","7","8","0">>

\* C9: a request of a call is not taken up (its session is not read) while an
\* earlier turn of the same call is still in progress
TurnsSerialized ==
    [][\A c \in Calls :
         (request'.phase = "start" /\ request'.call = c /\ request'.route \in Routes)
         => \A p \in pending : p.call /= c]_vars

\* C10: a step that handles a request of one call leaves the session of every
\* other call as it was: mode, state, language and slots, also its absence
CrossCallIndependence ==
    [][\A b \in Calls :
         request'.call /= b
         => IF has(sessionStore, b) THEN has(sessionStore', b) /\ sessionStore'[b] = sessionStore[b]
            ELSE ~has(sessionStore', b)]_vars
\* both calls hold sessions that differ, and the last request was CA2's
CrossCallIndependenceWitness ==
    /\ request.call = "CA2"
    /\ request.route \in Routes
    /\ has(sessionStore, "CA1") /\ has(sessionStore, "CA2")
    /\ sessionStore["CA1"].state = "COLLECT_NAME"
    /\ sessionStore["CA2"].state = "ASK_BOOK_OR_LIST_MORE"

\* C11: for every session Dialogue reaches and every non-empty utterance the
\* engine returns (no apology of the catch block is sent) a message with a
\* non-empty text, and transfer is true exactly on escalation turns
TotalFunction ==
    \A c \in Calls :
        answered(c)
        => /\ response.id = request.id
           /\ response.prompts[1].kind /= "technicalIssue"
           /\ Render(response.prompts[1]) /= <<>>
           /\ transferred(response) <=> Understood[request.speech].escalate
\* an escalation in the middle of a booking
TotalFunctionWitness ==
    /\ answered("CA1")
    /\ transferred(response)
    /\ sessionStore["CA1"].state = "COLLECT_PHONE"

\* C12: a non-escalating turn in COLLECT_PHONE re-asks the number and stays
\* when no phone is known after the capture; with a phone it confirms when a
\* preferred time is stored, and otherwise moves to COLLECT_TIME asking for
\* the day or time
CollectPhoneTransitions ==
    [][\A c \in Calls :
         (engineTurn(c) /\ ~heard.escalate /\ before(c).state = "COLLECT_PHONE")
         => IF ~knownPhone(c)
            THEN after(c).state = "COLLECT_PHONE" /\ said.kind = "reaskPhone"
            ELSE IF truthy(slot(before(c).data, "preferredTime"))
            THEN after(c).state = "CONFIRMED" /\ said.kind = "confirmation"
            ELSE after(c).state = "COLLECT_TIME" /\ said.kind \in TimeRequests]_vars
\* the phone arrived in COLLECT_PHONE with a time stored since NEW
CollectPhoneTransitionsWitness ==
    /\ answered("CA1")
    /\ Understood[request.speech].tRaw = <<"9","1","2","3","4","5","6","7","8","0">>
    /\ response.prompts[1].kind = "confirmation"
    /\ response.prompts[1].booking.patientName = <<"A","m","i","t">>
    /\ response.prompts[1].booking.preferredTime = <<"t","o","m","o","r","r","o","w">>

ConfirmationPersisted ==
    \A c \in Calls :
        has(sessionStore, c)
        => /\ sessionStore[c].state = "CONFIRMED"
              => /\ truthy(slot(sessionStore[c].data, "confirmationId"))
                 /\ truthy(slot(sessionStore[c].data, "preferredTime"))
           /\ sentConfirmation(c)
              => /\ sessionStore[c].state = "CONFIRMED"
                 /\ confirmation(c).booking.confirmationId = sessionStore[c].data.confirmationId
                 /\ includes(Render(confirmation(c)), sessionStore[c].data.confirmationId)
\* a confirmation was spoken with the second of the random ids
ConfirmationPersistedWitness ==
    /\ sentConfirmation("CA1")
    /\ sessionStore["CA1"].state = "CONFIRMED"
    /\ sessionStore["CA1"].data.confirmationId = <<"A","P","T","-","0","0","F","F","7","E">>

\* a keyword spoken as a word of its own, not as part of a longer word
spokenWord(s, k) ==
    \E i \in 0..(Len(s) - Len(k)) :
        /\ matchAt(s, i, k)
        /\ i = 0 \/ ~IsLetter(s[i])
        /\ i + Len(k) = Len(s) \/ ~IsLetter(s[i + Len(k) + 1])
\* the utterance names department dept: its name or one of its keywords
namesDepartment(text, dept) ==
    \/ spokenWord(normalize(text), normalize(dept))
    \/ \E i \in DOMAIN DeptAliases :
           DeptAliases[i].v = dept /\ \E j \in DOMAIN DeptAliases[i].k : spokenWord(normalize(text), DeptAliases[i].k[j])
\* for each speech result, which of the departments it names
NamedDepartments ==
    [u \in DOMAIN SpeechResults |->
        [i \in DOMAIN DEPARTMENTS |-> namesDepartment(SpeechResults[u], DEPARTMENTS[i])] \o <<>>] \o <<>>
namesDoctor(X) == X.hasDr \/ X.nameMatches /= <<>>

\* C15: from NEW, an utterance with a booking-intent keyword that names no
\* department and no doctor leaves the state NEW, writes no dept or
\* doctorName, and is answered by asking for a department or a doctor
BookingIntentOnly ==
    [][\A c \in Calls :
         (/\ engineTurn(c) /\ ~heard.escalate
          /\ before(c).state = "NEW"
          /\ heard.booking
          /\ \A i \in DOMAIN DEPARTMENTS : ~NamedDepartments[request'.speech][i]
          /\ ~namesDoctor(heard))
         => /\ after(c).state = "NEW"
            /\ slot(after(c).data, "dept") = slot(before(c).data, "dept")
            /\ slot(after(c).data, "doctorName") = slot(before(c).data, "doctorName")
            /\ said.kind = "askDepartment"]_vars

\* a non-escalating turn of call c, from NEW or ASK_BOOK_OR_LIST_MORE, whose
\* utterance names department i, and no other, and has no doctor reference
departmentTurn(c, i) ==
    /\ engineTurn(c) /\ ~heard.escalate
    /\ before(c).state \in {"NEW", "ASK_BOOK_OR_LIST_MORE"}
    /\ \A j \in DOMAIN DEPARTMENTS : NamedDepartments[request'.speech][j] <=> j = i
    /\ ~heard.hasDr
\* the doctors of each department
Staff == [i \in DOMAIN DEPARTMENTS |-> listDoctorsByDept(DEPARTMENTS[i], <<"G","u","r","g","a","o","n">>)] \o <<>>
\* the turn stores the department and offers its first three doctors, numbered
\* the list of a department's doctors, in English (1) and Hindi (2), names
\* its first three doctors with their numbers and no other
NumberedOffer ==
    [i \in DOMAIN DEPARTMENTS |->
        [h \in 1..2 |->
            \A n \in DOMAIN Staff[i] :
                includes(Render(DeptPrompt("listDoctors", h = 2, DEPARTMENTS[i])),
                         Staff[i][n].name \o <<" ","(">> \o <<Digits[n + 1]>> \o <<")">>) <=> n <= 3] \o <<>>] \o <<>>
\* the message about a department without doctors mentions the agent
AgentOffer ==
    [i \in DOMAIN DEPARTMENTS |->
        [h \in 1..2 |->
            includes(Render(DeptPrompt("noDoctorsListed", h = 2, DEPARTMENTS[i])),
                     IF h = 2 THEN <<"u090F","u091C","u0947","u0902","u091F">> ELSE <<"a","g","e","n","t">>)] \o <<>>] \o <<>>
offersDoctors(c, i) ==
    /\ after(c).state = "ASK_BOOK_OR_LIST_MORE"
    /\ slot(after(c).data, "dept") = DEPARTMENTS[i]
    /\ said = DeptPrompt("listDoctors", said.hi, DEPARTMENTS[i])
    /\ NumberedOffer[i][IF said.hi THEN 2 ELSE 1]
    /\ ~transferred(response')
\* the turn offers the agent instead, without transferring
offersAgent(c, i) ==
    /\ said = DeptPrompt("noDoctorsListed", said.hi, DEPARTMENTS[i])
    /\ AgentOffer[i][IF said.hi THEN 2 ELSE 1]
    /\ ~transferred(response')
\* slot k of call c keeps its value, or is filled in by what the engine takes
\* from every utterance: a name or phone not yet held, and in NEW a time
keptOrCaptured(c, k) ==
    \/ slot(after(c).data, k) = slot(before(c).data, k)
    \/ /\ ~truthy(slot(before(c).data, k))
       /\ \/ k = "patientName" /\ after(c).data[k] = heard.name
          \/ k = "phone" /\ after(c).data[k] = heard.phone
          \/ k = "preferredTime" /\ before(c).state = "NEW" /\ after(c).data[k] = heard.time

doctorTurn(c) ==
    /\ engineTurn(c) /\ ~heard.escalate
    /\ before(c).state \in {"NEW", "ASK_BOOK_OR_LIST_MORE", "CONFIRMED"}
    /\ heard.hasDr
\* the turn stores doctor d with the department of d and asks for the name
books(c, d) ==
    /\ after(c).state = "COLLECT_NAME"
    /\ slot(after(c).data, "doctorName") = d.name
    /\ slot(after(c).data, "dept") = d.dept

\* C17 (as stated): a doctor reference with exactly one directory match
\* moves the call to COLLECT_NAME with that doctor's name and department
\* stored; with no match the state and every slot are unchanged and the
\* engine asks for a department
DoctorResolutionSlotsUnchanged ==
    [][\A c \in Calls :
         doctorTurn(c)
         => /\ Len(heard.drMatches) = 1 => books(c, heard.drMatches[1])
            /\ Len(heard.drMatches) = 0
               => /\ after(c).state = before(c).state
                  /\ \A k \in Slots : slot(after(c).data, k) = slot(before(c).data, k)
                  /\ said.kind = "doctorNotFound"]_vars
\* C17 (amended): as stated, except that with no match only the state, dept,
\* doctorName and confirmationId are sure to be unchanged: a name, phone or
\* (in NEW) time the same utterance carries is still stored
DoctorResolution ==
    [][\A c \in Calls :
         doctorTurn(c)
         => /\ Len(heard.drMatches) = 1 => books(c, heard.drMatches[1])
            /\ Len(heard.drMatches) = 0
               => /\ after(c).state = before(c).state
                  /\ \A k \in {"dept", "doctorName", "confirmationId"} : slot(after(c).data, k) = slot(before(c).data, k)
                  /\ \A k \in Slots : keptOrCaptured(c, k)
                  /\ said.kind = "doctorNotFound"]_vars
\* an unknown doctor was asked for in NEW together with a time, and the time
\* is now stored
DoctorResolutionWitness ==
    /\ answered("CA1")
    /\ response.prompts[1].kind = "doctorNotFound"
    /\ sessionStore["CA1"].state = "NEW"
    /\ sessionStore["CA1"].data = [preferredTime |-> <<"t","o","m","o","r","r","o","w">>]

\* the speech results that are a number and nothing else
Numerals == {u \in DOMAIN SpeechResults :
                Understood[u].tRaw /= <<>> /\ \A i \in DOMAIN Understood[u].tRaw : IsDigit(Understood[u].tRaw[i])}
\* the doctors a call was offered for the department it holds
offered(c) ==
    IF truthy(slot(before(c).data, "dept")) THEN firstN(listDoctorsByDept(before(c).data.dept, <<"G","u","r","g","a","o","n">>), 3) ELSE <<>>
\* a non-escalating reply in ASK_BOOK_OR_LIST_MORE that names no department
\* and has no doctor reference
choiceTurn(c) ==
    /\ engineTurn(c) /\ ~heard.escalate
    /\ before(c).state = "ASK_BOOK_OR_LIST_MORE"
    /\ ~heard.hasDr
    /\ \A i \in DOMAIN DEPARTMENTS : ~NamedDepartments[request'.speech][i]
\* the re-prompt mentions the agent, in English (1) and in Hindi (2)
AgentEscape ==
    <<includes(Render(Prompt("chooseDoctor", FALSE)), <<"a","g","e","n","t">>),
      includes(Render(Prompt("chooseDoctor", TRUE)), <<"u090F","u091C","u0947","u0902","u091F">>)>>

\* C18: in ASK_BOOK_OR_LIST_MORE a number within the offered doctors selects
\* that doctor and a reply matching exactly one doctor name selects that
\* doctor, the call moving to COLLECT_NAME with doctorName and dept stored;
\* any other reply leaves the state and the slots unchanged and is answered
\* by the re-prompt that mentions the agent
DoctorChoice ==
    [][\A c \in Calls :
         choiceTurn(c)
         => IF request'.speech \in Numerals /\ heard.num[2] >= 1 /\ heard.num[2] <= Len(offered(c))
            THEN books(c, offered(c)[heard.num[2]])
            ELSE IF Len(heard.nameMatches) = 1
            THEN books(c, heard.nameMatches[1])
            ELSE /\ after(c).state = "ASK_BOOK_OR_LIST_MORE"
                 /\ \A k \in Slots : slot(after(c).data, k) = slot(before(c).data, k)
                 /\ said = Prompt("chooseDoctor", said.hi)
                 /\ AgentEscape[IF said.hi THEN 2 ELSE 1]]_vars

\* C19: once a call is in CONFIRMED, no later turn of the call changes its
\* state or replaces its confirmationId
ConfirmedIsTerminal ==
    [][\A c \in Calls :
         (engineTurn(c) /\ before(c).state = "CONFIRMED")
         => /\ after(c).state = "CONFIRMED"
            /\ slot(after(c).data, "confirmationId") = slot(before(c).data, "confirmationId")]_vars

\* how a confirmation names the department, in Hindi and in English
DeptLabel(hi, dept) == IF hi THEN <<"u0935","u093F","u092D","u093E","u0917",":"," ">> \o dept ELSE <<" ","i","n"," ">> \o dept

\* C20: a confirmation for a booking that holds both doctorName and dept,
\* in English and in Hindi alike, names the doctor and does not also name
\* the department
DoctorPrecedence ==
    \A c \in Calls :
        (/\ sentConfirmation(c)
         /\ truthy(slot(sessionStore[c].data, "doctorName"))
         /\ truthy(slot(sessionStore[c].data, "dept")))
        => /\ includes(Render(confirmation(c)), sessionStore[c].data.doctorName)
           /\ ~includes(Render(confirmation(c)), DeptLabel(confirmation(c).hi, sessionStore[c].data.dept))

\* the kinds of message the handlers speak themselves
HandlerNotices == {"greeting", "didNotCatch", "sayAgain", "goodbye", "technicalIssue", "transferUnavailable",
                   "askAnother", "anythingElse"}

\* C21: hospitalPolish returns its input unchanged when polishing is disabled
\* or no API key is configured (without calling the paraphrasing
\* collaborator), and when the call throws or returns empty output; the
\* handler's catch block is never reached from it
PolishFallback ==
    [][/\ \A c \in Calls :
            (engineTurn(c) /\ (~env.ENABLE_POLISH \/ ~env.OPENAI_API_KEY))
            => /\ pending' = pending
               /\ response'.id = request'.id
               /\ said.kind \notin HandlerNotices /\ ~said.reworded
       /\ \A p \in pending, outcome \in {"empty", "throws"} :
            PolishReturns(p, outcome) => said = p.say /\ said.kind \notin HandlerNotices]_vars
\* the paraphrasing call came back empty or failed and the listing of the
\* doctors was spoken as composed
PolishFallbackWitness ==
    /\ request.phase = "resume"
    /\ response.id = request.id
    /\ response.prompts[1].kind = "listDoctors"
    /\ ~response.prompts[1].reworded

\* the messages that ask for the name, the phone or the day or time, and the
\* confirmation
CollectionCritical == NameRequests \cup PhoneRequests \cup TimeRequests \cup {"confirmation"}

\* C22: with polishing enabled and configured, no message that asks for the
\* patient's name, the phone number or the preferred day or time, and no
\* confirmation message, is sent to the paraphrasing collaborator; it is
\* spoken as composed
PolishSkipList ==
    [][/\ \A p \in pending' \ pending : p.waits = "polish" => p.say.kind \notin CollectionCritical
       /\ \A c \in Calls :
            (hospitalResponse(c) /\ said.kind \in CollectionCritical) => ~said.reworded]_vars

\* the step sends the response of a turn of call c whose result has
\* transfer = true
transferTurn(c) ==
    \/ engineTurn(c) /\ pending' = pending /\ heard.escalate
    \/ /\ request'.phase = "resume"
       /\ request'.call = c
       /\ pending' /= pending
       /\ resumed.waits = "polish"
       /\ resumed.transfer

\* C23: the response to a turn whose result has transfer = true plays the
\* engine's handoff message first and then dials the agent number when one is
\* configured, and otherwise plays the fixed transfer-unavailable message and
\* hangs up; it never gathers speech
TransferFallback ==
    [][\A c \in Calls :
         transferTurn(c)
         => /\ said.kind = "handoff"
            /\ ~\E i \in DOMAIN response'.twiml : response'.twiml[i] = "Gather"
            /\ IF env.AGENT_NUMBER
               THEN response'.twiml = <<"Play", "Dial">> /\ Len(response'.prompts) = 1
               ELSE /\ response'.twiml = <<"Play", "Play", "Hangup">>
                    /\ response'.prompts = <<said, Notice("transferUnavailable", response'.lang)>>]_vars
\* without an agent number, the handoff message was followed by the
\* transfer-unavailable message and a hangup
TransferFallbackWitness ==
    /\ ~env.AGENT_NUMBER
    /\ response.twiml = <<"Play", "Play", "Hangup">>
    /\ response.prompts[1].kind = "handoff"
    /\ response.prompts[2].kind = "transferUnavailable"

\* the step receives a request of call c whose SpeechResult is empty once
\* trimmed
silentTurn(c) ==
    /\ served' = served + 1
    /\ request'.call = c
    /\ request'.route \in Routes
    /\ heard.tRaw = <<>>
\* speech results of blanks only are empty once trimmed
BlankSpeech == \A s \in {<<>>, <<" ">>, <<" "," "," ">>, <<"\t", " ", "\n">>} : understand(s).tRaw = <<>>

\* C24: an empty or whitespace-only SpeechResult on /handle-input or
\* /handle-followup does not reach the engine: the session (mode, state,
\* language, slots), the transcript and the history are unchanged, no
\* outbound call is made, and the response is a re-prompt inside a gather
EmptySpeechIsNoTurn ==
    [][\A c \in Calls :
         silentTurn(c)
         => /\ BlankSpeech
            /\ after(c) = before(c)
            /\ transcriptStore' = transcriptStore /\ persisted' = persisted /\ convoStore' = convoStore
            /\ pending' = pending
            /\ response'.id = request'.id
            /\ response'.twiml = <<"Gather">>
            /\ response'.prompts = <<Notice(IF request'.route = "/handle-input" THEN "didNotCatch" ELSE "sayAgain",
                                            response'.lang)>>]_vars
\* silence on /handle-followup in the middle of a booking
EmptySpeechIsNoTurnWitness ==
    /\ request.route = "/handle-followup"
    /\ request.speech \in DOMAIN SpeechResults
    /\ Understood[request.speech].tRaw = <<>>
    /\ response.id = request.id
    /\ response.prompts[1].kind = "sayAgain"
    /\ has(sessionStore, request.call)
    /\ sessionStore[request.call].state = "COLLECT_NAME"

\* C25: when the outbound call a /handle-input or /handle-followup handler
\* waits for throws out of the engine, the handler answers that request in
\* the same step with the technical-issue apology followed by a hangup, and
\* is suspended no longer
PipelineFailureHandled ==
    [][\A p \in pending :
         CompletionFails(p)
         => /\ p.route \in Routes
            /\ p \notin pending'
            /\ response'.id = p.id /\ response'.call = p.call /\ response'.route = p.route
            /\ response'.prompts = <<Notice("technicalIssue", response'.lang)>>
            /\ response'.twiml = <<"Play", "Hangup">>]_vars
\* the completion request failed and the apology was sent
PipelineFailureHandledWitness ==
    /\ request.phase = "resume"
    /\ response.id = request.id
    /\ response.prompts[1].kind = "technicalIssue"
    /\ response.twiml = <<"Play", "Hangup">>
    /\ pending = {}

\* C26 (src/server.js): an empty speech result in the middle of a call - the
\* silent /handle-input request and the /welcome request the carrier makes
\* on its Redirect - leaves the call's mode, state and language unchanged
ResumableAfterSilence ==
    [][\A c \in Calls :
         (/\ request'.call = c
          /\ has(sessionStore, c)
          /\ \/ request'.phase = "redirect"
             \/ /\ request'.phase = "start" /\ request'.route = "/handle-input"
                /\ serverJs_Understood[request'.speech].tRaw = <<>>)
         => /\ after(c).mode = before(c).mode
            /\ after(c).state = before(c).state
            /\ after(c).lang = before(c).lang]_vars

\* the answer the mapping names for an utterance: Hindi when Hindi is named,
\* English when English is named in either script, Hindi for any other
\* Devanagari text, no change otherwise
namedPreference(t) ==
    IF includes(t, <<"h","i","n","d","i">>) \/ includes(t, <<"u0939","u093F","u0902","u0926","u0940">>) \/ includes(t, <<"u0939","u093F","u0928","u094D","u0926","u0940">>) THEN "hi-IN"
    ELSE IF includes(t, <<"e","n","g","l","i","s","h">>) \/ includes(t, <<"u0905","u0902","u0917","u094D","u0930","u0947","u091C","u0940">>) THEN "en-IN"
    ELSE IF \E i \in 1..Len(t) : t[i] \in Devanagari THEN "hi-IN"
    ELSE "null"
\* C27: detectLangPreference returns Hindi for an utterance with a Devanagari
\* code point or the word 'hindi', English for one with 'english' or the
\* Devanagari word for English, and null otherwise
LangPreferenceMapping ==
    request.route = "detectLangPreference"
    => response.lang = namedPreference(toLowerCase(request.speech))

\* the character at position p of s lies in an occurrence of one of the words
inWord(s, p, words) ==
    \E w \in DOMAIN words : \E i \in (p - Len(words[w]))..(p - 1) :
        i >= 0 /\ matchAt(s, i, words[w])
\* a Latin letter of s outside every occurrence of the words
latinOutside(s, words) == \E p \in 1..Len(s) : IsLetter(s[p]) /\ ~inWord(s, p, words)
\* the proper names a Hindi message of call c may carry in Latin script: the
\* doctors, the hospital, the confirmation id and the caller's own name
ProperNames(c) ==
    [i \in DOMAIN DOCTORS |-> DOCTORS[i].name] \o <<HOSPITAL_NAME>>
    \o (IF truthy(slot(sessionStore[c].data, "confirmationId")) THEN <<slot(sessionStore[c].data, "confirmationId")>> ELSE <<>>)
    \o (IF truthy(slot(sessionStore[c].data, "patientName")) THEN <<slot(sessionStore[c].data, "patientName")>> ELSE <<>>)
\* C28: a message the engine composes while the session language is Hindi
\* holds no Latin-script word other than proper names and the confirmation
\* id: departments, times and slots are rendered in Hindi
HindiScript ==
    \A c \in Calls :
        (/\ answered(c) /\ response.id = request.id
         /\ response.prompts[1].hi)
        => ~latinOutside(Render(response.prompts[1]), ProperNames(c))

\* the transcript of call c in a store, empty when the call has none
memory(store, c) == IF has(store, c) THEN store[c] ELSE <<>>
disk(file, c) == IF has(file, c) THEN file[c].transcript ELSE <<>>
isPrefix(xs, ys) == Len(xs) <= Len(ys) /\ SubSeq(ys, 1, Len(xs)) = xs
\* C29: the pushTranscript calls of a request extend the call's transcript at
\* its end, one entry each, and keep the earlier entries in their order - in
\* transcriptStore and in the persisted record alike, after a restart too
AppendOnlyTranscript ==
    [][\A c \in Calls :
         request'.phase /= "restart"
         => /\ isPrefix(memory(transcriptStore, c), memory(transcriptStore', c))
            /\ isPrefix(disk(persisted, c), disk(persisted', c))
            /\ Len(disk(persisted', c)) - Len(disk(persisted, c))
               = Len(memory(transcriptStore', c)) - Len(memory(transcriptStore, c))]_vars

\* a response that ends the call: a goodbye or an apology followed by a
\* hangup, or the transfer to the agent
endsCall(r) == r.twiml /= <<>> /\ r.twiml[Len(r.twiml)] \in {"Hangup", "Dial"}
\* C30: the session of a call is created by the first request of that call
\* that reads it, and once a response has ended the call - goodbye, transfer
\* or error hangup - the call is no longer in sessionStore
SessionLifecycle ==
    [][\A c \in Calls :
         /\ (~has(sessionStore, c) /\ has(sessionStore', c)) => request'.call = c
         /\ (response'.call = c /\ endsCall(response')) => ~has(sessionStore', c)]_vars

CollectionStates == {"COLLECT_NAME", "COLLECT_PHONE", "COLLECT_TIME", "CONFIRMED"}
\* C31: in every reachable session, a state of name, phone or time collection
\* or CONFIRMED implies that doctorName and dept are both non-empty
DoctorFirst ==
    \A c \in DOMAIN sessionStore :
        sessionStore[c].state \in CollectionStates
        => /\ truthy(slot(sessionStore[c].data, "doctorName"))
           /\ truthy(slot(sessionStore[c].data, "dept"))
\* a call went through the collection states to CONFIRMED
DoctorFirstWitness ==
    \E c \in DOMAIN sessionStore :
        /\ sessionStore[c].state = "CONFIRMED"
        /\ truthy(slot(sessionStore[c].data, "doctorName"))
        /\ truthy(slot(sessionStore[c].data, "patientName"))

\* C32 (src/unnamed/part_003): every turn in COLLECT_NAME with a non-empty,
\* non-escalating utterance stores a non-empty patientName and moves to
\* COLLECT_PHONE, and does not ask for the name again
AnyUtteranceIsName ==
    [][\A c \in Calls :
         (/\ served' = served + 1
          /\ request'.call = c
          /\ request'.route \in Routes
          /\ part003_Understood[request'.speech].tRaw /= <<>>
          /\ ~part003_Understood[request'.speech].escalate
          /\ ~(request'.route = "/handle-followup" /\ part003_Understood[request'.speech].endWord)
          /\ before(c).state = "COLLECT_NAME")
         => /\ after(c).state = "COLLECT_PHONE"
            /\ truthy(slot(after(c).data, "patientName"))
            /\ response'.prompts[1].kind /= "askName"]_vars

\* C33: every non-empty utterance delivered to /handle-followup that matches
\* wantsHuman or looksLikeMedicalAdvice is answered with a transfer: a dial,
\* or the unavailable message and a hangup
FollowupEscalates ==
    [][\A c \in Calls :
         (/\ served' = served + 1
          /\ request'.call = c
          /\ request'.route = "/handle-followup"
          /\ EscalationUnderstood[request'.speech].tRaw /= <<>>
          /\ EscalationUnderstood[request'.speech].escalate
          /\ before(c).mode = "hospital")
         => /\ response'.id = request'.id
            /\ response'.prompts[1].kind = "handoff"
            /\ transferred(response')]_vars

\* the Hindi day of a slot day and the time-of-day word of an hour
DayHindi == <<<<"u0906","u091C">>, <<"u0915","u0932">>, <<"u092A","u0930","u0938","u094B","u0902">>, <<"u0938","u094B","u092E","u0935","u093E","u0930">>, <<"u092E","u0902","u0917","u0932","u0935","u093E","u0930">>, <<"u092C","u0941","u0927","u0935","u093E","u0930">>, <<"u0917","u0941","u0930","u0941","u0935","u093E","u0930">>, <<"u0936","u0941","u0915","u094D","u0930","u0935","u093E","u0930">>, <<"u0936","u0928","u093F","u0935","u093E","u0930">>, <<"u0930","u0935","u093F","u0935","u093E","u0930">>>>
timeOfDay(h, meridiem) ==
    IF meridiem = 1 THEN <<"u0938","u0941","u092C","u0939">>
    ELSE IF h = 12 \/ h \in 1..4 THEN <<"u0926","u094B","u092A","u0939","u0930">>
    ELSE IF h \in 5..7 THEN <<"u0936","u093E","u092E">>
    ELSE <<"u0930","u093E","u0924">>
\* C34: slotToHindi translates the day, keeps the hour digits and puts
\* exactly one time-of-day word before them: morning for h AM; for h PM
\* afternoon at 12 and 1..4, evening at 5..7, night at 8..11
ClockBuckets ==
    request.route = "slotToHindi"
    => response.prompts[1] = DayHindi[request.speech[1]] \o <<" ">> \o timeOfDay(request.speech[2], request.speech[4])
                             \o <<" ">> \o numeral(request.speech[2]) \o SlotMinutes[request.speech[3]] \o <<" ","u092C","u091C","u0947">>
\* 'Tomorrow 5 PM' has become 'कल शाम 5 बजे'
ClockBucketsWitness ==
    /\ request.route = "slotToHindi"
    /\ descriptor(request.speech) = <<"T","o","m","o","r","r","o","w"," ","5"," ","P","M">>
    /\ response.prompts[1] = <<"u0915","u0932"," ","u0936","u093E","u092E"," ","5"," ","u092C","u091C","u0947">>

\* the slots of session s named in ks are all non-empty
filled(s, ks) == \A k \in ks : truthy(slot(s.data, k))
\* C35: COLLECT_PHONE implies patientName is set, COLLECT_TIME implies
\* patientName and phone, CONFIRMED implies patientName, phone, doctorName
\* and preferredTime; a confirmation never falls back to 'the patient' or
\* 'your number'
CollectedDataComplete ==
    \A c \in DOMAIN sessionStore :
        /\ sessionStore[c].state = "COLLECT_PHONE" => filled(sessionStore[c], {"patientName"})
        /\ sessionStore[c].state = "COLLECT_TIME" => filled(sessionStore[c], {"patientName", "phone"})
        /\ sessionStore[c].state = "CONFIRMED"
           => filled(sessionStore[c], {"patientName", "phone", "doctorName", "preferredTime"})
        /\ (\E r \in {response} : r.call = c /\ r.prompts /= <<>> /\ r.prompts[1].kind = "confirmation")
           => /\ truthy(response.prompts[1].booking.patientName)
              /\ truthy(response.prompts[1].booking.phone)
\* a confirmation was sent for a call that went through name, phone and time
CollectedDataCompleteWitness ==
    \E c \in DOMAIN sessionStore :
        /\ sessionStore[c].state = "CONFIRMED"
        /\ response.call = c /\ response.prompts /= <<>> /\ response.prompts[1].kind = "confirmation"
        /\ filled(sessionStore[c], {"patientName", "phone", "doctorName", "preferredTime"})

\* C36: the session writes of a turn, and the reads they depend on, all
\* happen in the step that receives the request: a handler that resumes
\* after its outbound call leaves every session as it finds it, and no step
\* removes a session or a slot another turn has written, so overlapping
\* requests of a call leave the session that handling them one after the
\* other, in the order they arrived, leaves
TurnsSerialised ==
    [][/\ request'.phase = "resume" => sessionStore' = sessionStore
       /\ \A c \in DOMAIN sessionStore :
              /\ c \in DOMAIN sessionStore'
              /\ \A k \in DOMAIN sessionStore[c].data : has(sessionStore'[c].data, k)]_vars
\* a handler has resumed while another request of the same call, received
\* after it and having written the session, is still suspended
TurnsSerialisedWitness ==
    /\ request.phase = "resume"
    /\ \E p \in pending : p.call = request.call /\ p.id > request.id
    /\ sessionStore[request.call].state /= "NEW"

\* how far a booking has come
rank(state) ==
    CASE state = "NEW" -> 0
      [] state = "ASK_BOOK_OR_LIST_MORE" -> 1
      [] state = "COLLECT_NAME" -> 2
      [] state = "COLLECT_PHONE" -> 3
      [] state = "COLLECT_TIME" -> 4
      [] state = "CONFIRMED" -> 5
\* C37: when every utterance of a call that starts in NEW is non-escalating
\* and gives the datum just asked for, every turn takes the call further
\* towards CONFIRMED with a prompt other than the one before, so that the call
\* is CONFIRMED after at most five turns and never ends unconfirmed
BoundedProgress ==
    [][served >= 1 /\ served' = served + 1
       => /\ rank(after("CA1").state) > rank(before("CA1").state)
          /\ response'.prompts[1].kind /= response.prompts[1].kind
          /\ served' > 5 => after("CA1").state = "CONFIRMED"]_vars
\* the same for the turns that reach getAIAnswerHospital
EngineProgress ==
    [][served >= 1 /\ served' = served + 1 /\ ~BookingUnderstood[request'.speech].endWord
       => /\ rank(after("CA1").state) > rank(before("CA1").state)
          /\ response'.prompts[1].kind /= response.prompts[1].kind
          /\ served' > 5 => after("CA1").state = "CONFIRMED"]_vars

\* what the extractors find in the speech of the request handled by the step
\* (Escalations)
heardEscalating == EscalationUnderstood[request'.speech]
\* C38: on a turn that ends in transfer = true the session language is the
\* preference heard in the utterance (else as before), patientName and phone
\* are taken from the utterance when it gives them and they were empty (else
\* as before), and dialogueState, doctorName, dept, preferredTime and
\* confirmationId are as before
CapturePrecedesEscalation ==
    [][(/\ served' = served + 1
        /\ request'.call = "CA1"
        /\ request'.route \in Routes
        /\ heardEscalating.tRaw /= <<>>
        /\ ~(request'.route = "/handle-followup" /\ heardEscalating.endWord)
        /\ heardEscalating.escalate)
       => /\ transferred(response')
          /\ response'.prompts[1].kind = "handoff"
          /\ after("CA1").lang = IF heardEscalating.pref /= "null" THEN heardEscalating.pref ELSE before("CA1").lang
          /\ slot(after("CA1").data, "patientName")
               = IF truthy(heardEscalating.name) /\ ~truthy(slot(before("CA1").data, "patientName"))
                 THEN heardEscalating.name ELSE slot(before("CA1").data, "patientName")
          /\ slot(after("CA1").data, "phone")
               = IF truthy(heardEscalating.phone) /\ ~truthy(slot(before("CA1").data, "phone"))
                 THEN heardEscalating.phone ELSE slot(before("CA1").data, "phone")
          /\ after("CA1").state = before("CA1").state
          /\ \A k \in BookingSlots : slot(after("CA1").data, k) = slot(before("CA1").data, k)]_vars
\* a transfer whose utterance gave a name, a phone number and a day: name and
\* phone are in the session of a call still in NEW, the day is not
CapturePrecedesEscalationWitness ==
    /\ transferred(response)
    /\ response.prompts[1].kind = "handoff"
    /\ EscalationSpeech[request.speech] = <<"m","y"," ","n","a","m","e"," ","i","s"," ","A","m","i","t",","," ","9","8","7","6","5","4","3","2","1","0",","," ","a","g","e","n","t"," ","t","o","m","o","r","r","o","w">>
    /\ truthy(EscalationUnderstood[request.speech].time)
    /\ sessionStore["CA1"].state = "NEW"
    /\ slot(sessionStore["CA1"].data, "patientName") = <<"A","m","i","t">>
    /\ slot(sessionStore["CA1"].data, "phone") = <<"9","8","7","6","5","4","3","2","1","0">>
    /\ ~has(sessionStore["CA1"].data, "preferredTime")

\* the chunks put one after the other, each but the first without its first
\* overlap characters
RECURSIVE stitched(_, _, _)
stitched(chunks, k, overlap) ==
    IF k > Len(chunks) THEN <<>>
    ELSE (IF k = 1 THEN chunks[k] ELSE SubSeq(chunks[k], overlap + 1, Len(chunks[k])))
         \o stitched(chunks, k + 1, overlap)
\* C39: for every text and every maxChars >= 1 and overlap >= 0 the loop of
\* chunkText ends (it makes no more chunks than the cleaned text has
\* characters), every iteration that does not leave the loop moves the start
\* index forward, and when the loop is left the chunks cover the cleaned text
ChunkTextTerminates ==
    [][response'.route = "chunkText" /\ response.route = "chunkText"
       => /\ (response.pc = "while" /\ response'.pc = "while") => response'.i > response.i
          /\ Len(response'.chunks) <= Len(response.clean)
          /\ response'.pc = "done"
             => stitched(response'.chunks, 1, request.speech.overlap) = response.clean]_vars
\* the same for the calls whose overlap is less than maxChars
ChunkTextTerminatesBelowMaxChars ==
    [][/\ response'.route = "chunkText" /\ response.route = "chunkText"
       /\ request.speech.overlap < request.speech.maxChars
       => /\ (response.pc = "while" /\ response'.pc = "while") => response'.i > response.i
          /\ Len(response'.chunks) <= Len(response.clean)
          /\ response'.pc = "done"
             => stitched(response'.chunks, 1, request.speech.overlap) = response.clean]_vars
====
